---- MODULE Spec2Model ----
(***************************************************************************)
(* Doodle Duel game server (src/server.ts, lines 1-587): one game room,    *)
(* its socket connections, its timers and the events it emits.             *)
(*                                                                         *)
(* Strings are sequences of one-character strings.  Array indices kept in  *)
(* the state (revealedIndices) are 0-based as in the source.               *)
(***************************************************************************)
EXTENDS Integers, Sequences, FiniteSets, TLC

\* ------------------------------------------------------------------ bounds
MaxEvents == 9         \* events (requests and timer firings) handled over a run
MaxSockets == 4        \* connections accepted over a run
MaxTotalRounds == 2    \* largest totalRounds a client sends
MaxRooms == 1          \* rooms created over a run
MaxTrioEvents == 5     \* events handled over a run that starts in a three-player round
MaxPairRooms == 2      \* rooms created over a run that follows two rooms
MaxPairEvents == 4     \* events handled over a run that follows two rooms
MaxLiveEvents == 1     \* requests handled over a run whose timers fire without limit
MaxOverrun == 1        \* seconds below zero a countdown is told apart
MaxCooldowns == 2      \* pending cool-downs of a room that are told apart
MaxPaths == 2          \* longest drawing log
MaxLen == 3            \* longest string handed to a pure function
MaxAnalyses == 1       \* classifier calls in flight

\* --------------------------------------------------------- program constants
RoundSeconds == 90
HintAt == 45
DrawerPoints == 20
FlatBonus == 10
MinGuesserPoints == 10
MinPlayers == 2
DefaultTotalRounds == 3

\* ------------------------------------------------------------------ strings
Lower(c) ==
  CASE c = "A" -> "a" [] c = "B" -> "b" [] c = "C" -> "c" [] c = "D" -> "d"
    [] c = "L" -> "l" [] c = "O" -> "o" [] c = "Y" -> "y"
    [] OTHER -> c

ToLowerCase(s) == [i \in 1..Len(s) |-> Lower(s[i])]

RECURSIVE TrimStart(_)
TrimStart(s) == IF s # <<>> /\ Head(s) = " " THEN TrimStart(Tail(s)) ELSE s

RECURSIVE TrimEnd(_)
TrimEnd(s) ==
  IF s # <<>> /\ s[Len(s)] = " " THEN TrimEnd(SubSeq(s, 1, Len(s) - 1)) ELSE s

Trim(s) == TrimEnd(TrimStart(s))

Min2(a, b) == IF a < b THEN a ELSE b
Max2(a, b) == IF a > b THEN a ELSE b

\* ------------------------------------------------------------- pure helpers
\* revealedIndices.includes(index)
Includes(arr, x) == \E k \in 1..Len(arr) : arr[k] = x

\* a mask that reveals no letter
MaskSymbols_NoReveal(word, revealedIndices) ==
  [i \in 1..Len(word) |-> IF word[i] = " " THEN word[i] ELSE "_"]

\* word.split("").map(...): one symbol per character (before join(" "))
MaskSymbols(word, revealedIndices) ==
  [i \in 1..Len(word) |->
     IF Includes(revealedIndices, i - 1) \/ word[i] = " " THEN word[i] ELSE "_"]

RECURSIVE Join(_)
Join(syms) ==
  IF Len(syms) = 0 THEN <<>>
  ELSE IF Len(syms) = 1 THEN <<syms[1]>>
  ELSE <<syms[1], " ">> \o Join(Tail(syms))

getMaskedWord(word, revealedIndices) == Join(MaskSymbols(word, revealedIndices))

\* an award without the floor of ten points
guesserPoints_NoMinimum(roundTimer) == (roundTimer * 6) \div 10

\* Math.max(10, Math.floor(roundTimer * 0.6) + 10); floor(t*0.6) = floor(6t/10)
\* (\div rounds toward minus infinity, as Math.floor does)
guesserPoints(roundTimer) ==
  Max2(MinGuesserPoints, ((roundTimer * 6) \div 10) + FlatBonus)

\* -------------------------------------------------------------------- input
CreatorNames == { <<"A", "l">> }
JoinerNames == { <<"a", "L">>, <<"B", "o">> }
Words == { <<"a", "b", " ", "c", "d">>, <<" ", "O", "l">> }
Texts == { <<" ", "A", "B", " ", "c", "d", " ">>, <<"o", "L">>, <<"a", "b", " ", "c", "y">> }
SocketIds == 1..MaxSockets
RoomIds == 1..MaxRooms
NoSocket == 0
NoRoom == 0

\* -------------------------------------------------------------------- state
VARIABLES
  sockets,     \* sockets[s]: [open, currentRoomId] of connection s (socket.id = s)
  gameRooms,   \* the registry: room id -> RoomState
  timers,      \* callbacks that close over a connection: [leaked, teardowns, analyses]
  created,     \* number of rooms created so far (the next room id is created + 1)
  out,         \* what the last step emitted, in order
  lastOp,      \* the event the last step handled
  events,      \* number of events handled so far
  scoreAtLeave \* history: <<room id, lower-cased name>> -> score at the last disconnect

vars == <<sockets, gameRooms, timers, created, out, lastOp, events, scoreAtLeave>>

Player(id, name, isDrawing, hasGuessed) ==
  [id |-> id, name |-> name, score |-> 0, isDrawing |-> isDrawing,
   hasGuessed |-> hasGuessed, disconnected |-> FALSE]

\* io.to(room).emit: to = 0; socket.emit / io.to(socketId).emit: to = socket;
\* socket.to(room).emit (everyone but the sender): to = -socket
Event(ev, room, to, word, active) ==
  [ev |-> ev, room |-> room, to |-> to, word |-> word, active |-> active]

Emit(m, e) == [m EXCEPT !.out = Append(@, e)]

HasRoom(m, roomId) == roomId \in DOMAIN m.rooms

SetRoom(m, roomId, r) == [m EXCEPT !.rooms[roomId] = r]

PushMessage(r, kind) == [r EXCEPT !.messages = Append(@, kind)]

\* players.filter(p => !p.disconnected)
ActivePlayers(players) == SelectSeq(players, LAMBDA p : ~p.disconnected)
DisconnectedPlayers(players) == SelectSeq(players, LAMBDA p : p.disconnected)

\* players.findIndex(p => p.id === id): 0-based, -1 when absent
FindIndexById(players, id) ==
  IF \E k \in 1..Len(players) : players[k].id = id
  THEN (CHOOSE k \in 1..Len(players) :
          /\ players[k].id = id
          /\ \A j \in 1..(k - 1) : players[j].id # id) - 1
  ELSE -1

\* (variant: the names are compared as they are written)
FindIndexByName_CaseSensitive(players, name) ==
  IF \E k \in 1..Len(players) : players[k].name = name
  THEN (CHOOSE k \in 1..Len(players) :
          /\ players[k].name = name
          /\ \A j \in 1..(k - 1) : players[j].name # name) - 1
  ELSE -1

\* players.findIndex(p => p.name.toLowerCase() === name.toLowerCase())
FindIndexByName(players, name) ==
  IF \E k \in 1..Len(players) : ToLowerCase(players[k].name) = ToLowerCase(name)
  THEN (CHOOSE k \in 1..Len(players) :
          /\ ToLowerCase(players[k].name) = ToLowerCase(name)
          /\ \A j \in 1..(k - 1) :
               ToLowerCase(players[j].name) # ToLowerCase(name)) - 1
  ELSE -1

\* players.findIndex(p => p.isDrawing)
FindIndexDrawing(players) ==
  IF \E k \in 1..Len(players) : players[k].isDrawing
  THEN (CHOOSE k \in 1..Len(players) :
          /\ players[k].isDrawing
          /\ \A j \in 1..(k - 1) : ~players[j].isDrawing) - 1
  ELSE -1

\* players.filter(p => !p.isDrawing && !p.disconnected).every(p => p.hasGuessed)
AllGuessed(players) ==
  \A k \in 1..Len(players) :
    (~players[k].isDrawing /\ ~players[k].disconnected) => players[k].hasGuessed

\* a handler starts with nothing emitted
Quiet(m) == [m EXCEPT !.out = <<>>]

\* (variant: the state goes out as it is, currentWord unmasked)
broadcastGameState_Unmasked(m, roomId) ==
  IF ~HasRoom(m, roomId) THEN m
  ELSE LET r == m.rooms[roomId]
       IN  Emit(m, Event("gameStateUpdate", roomId, 0, r.currentWord, r.isRoundActive))

broadcastGameState(m, roomId) ==
  IF ~HasRoom(m, roomId) THEN m
  ELSE LET r == m.rooms[roomId]
           shown == r.isRoundActive /\ r.drawerId # NoSocket
       IN  Emit(m, Event("gameStateUpdate", roomId, 0,
                         IF shown THEN getMaskedWord(r.currentWord, r.revealedIndices)
                         ELSE <<>>,
                         r.isRoundActive))

broadcastFullWordToDrawer(m, roomId) ==
  IF ~HasRoom(m, roomId) \/ m.rooms[roomId].drawerId = NoSocket THEN m
  ELSE LET r == m.rooms[roomId]
       IN  Emit(m, Event("drawerWord", roomId, r.drawerId, r.currentWord,
                         r.isRoundActive))

\* a round end that leaves its timers running
ClearTimers_Kept(r) == r

\* the three clearInterval/clearTimeout calls and the handles set to null
ClearTimers(r) ==
  [r EXCEPT !.roundInterval = NoSocket, !.hintInterval = FALSE,
            !.wordChoiceTimeout = NoSocket]

\* --------------------------------------------------------- game logic (per room)
\* (currentDrawerIndex + 1) % activePlayers.length, 0-based
NextDrawerIndex(activePlayers, drawerId) ==
  (FindIndexById(activePlayers, drawerId) + 1) % Len(activePlayers)

startRound(m, roomId) ==
  IF ~HasRoom(m, roomId) THEN m
  ELSE
    LET r0 == ClearTimers(m.rooms[roomId])
        activePlayers == ActivePlayers(r0.players)
    IN
    IF Len(activePlayers) < MinPlayers
    THEN Emit(SetRoom(m, roomId, r0),
              Event("errorNotEnoughActive", roomId, 0, <<>>, r0.isRoundActive))
    ELSE
      LET currentDrawerIndex == FindIndexById(activePlayers, r0.drawerId)
          nextDrawerIndex == NextDrawerIndex(activePlayers, r0.drawerId)
          cycled == IF nextDrawerIndex = 0 /\ r0.currentRound # 0
                    THEN r0.currentRound + 1 ELSE r0.currentRound
          round == IF currentDrawerIndex = -1 THEN 1 ELSE cycled
          r1 == [r0 EXCEPT !.currentRound = round]
      IN
      IF r1.currentRound > r1.totalRounds
      THEN broadcastGameState(
             SetRoom(m, roomId,
                     PushMessage([r1 EXCEPT !.isGameOver = TRUE,
                                            !.isRoundActive = FALSE], "gameOver")),
             roomId)
      ELSE
        LET newDrawer == activePlayers[nextDrawerIndex + 1]
            r2 == [r1 EXCEPT
                     !.drawingHistory = <<>>,
                     !.messages = <<"choosing">>,
                     !.currentWord = <<>>,
                     !.revealedIndices = <<>>,
                     !.roundTimer = RoundSeconds,
                     !.isRoundActive = FALSE,
                     !.drawerId = newDrawer.id,
                     !.players = [k \in 1..Len(r1.players) |->
                        [r1.players[k] EXCEPT
                           !.isDrawing = (r1.players[k].id = newDrawer.id),
                           !.hasGuessed = (k - 1 = FindIndexById(r1.players, newDrawer.id))]],
                     !.wordChoiceTimeout = newDrawer.id]
        IN  Emit(broadcastGameState(SetRoom(m, roomId, r2), roomId),
                 Event("promptWordChoice", roomId, newDrawer.id, <<>>, FALSE))

endRound(m, roomId, wordGuessed) ==
  IF ~HasRoom(m, roomId) THEN m
  ELSE
    LET r0 == ClearTimers(m.rooms[roomId])
        silent == ~r0.isRoundActive /\ ~wordGuessed
        r1 == IF silent THEN r0
              ELSE PushMessage(r0, IF wordGuessed THEN "allGuessed" ELSE "timeUp")
        m1 == IF silent THEN m
              ELSE Emit(m, Event("roundEnd", roomId, 0, r0.currentWord, r0.isRoundActive))
        r2 == [r1 EXCEPT !.isRoundActive = FALSE, !.cooldowns = @ + 1]
    IN  broadcastGameState(SetRoom(m1, roomId, r2), roomId)

\* indices (0-based) of the non-space characters not yet revealed, ascending
Unrevealed(word, revealedIndices) ==
  LET keep(i) == ~Includes(revealedIndices, i) /\ word[i + 1] # " "
      idx == [i \in 1..Len(word) |-> i - 1]
  IN  SelectSeq(idx, keep)

\* rnd stands for Math.floor(Math.random() * unrevealed.length)
revealHint(m, roomId, rnd) ==
  IF ~HasRoom(m, roomId) THEN m
  ELSE
    LET r == m.rooms[roomId]
        unrevealed == Unrevealed(r.currentWord, r.revealedIndices)
    IN  IF Len(unrevealed) > 2
        THEN LET randomIndex == unrevealed[(rnd % Len(unrevealed)) + 1]
             IN  broadcastGameState(
                   SetRoom(m, roomId,
                           [r EXCEPT !.revealedIndices = Append(@, randomIndex)]),
                   roomId)
        ELSE m

gameTick(m, roomId, rnd) ==
  IF ~HasRoom(m, roomId) THEN m
  ELSE
    LET r1 == [m.rooms[roomId] EXCEPT !.roundTimer = @ - 1]
        m1 == SetRoom(m, roomId, r1)
        m2 == IF r1.roundTimer = HintAt
              THEN LET h == revealHint(m1, roomId, rnd)
                   IN  SetRoom(h, roomId, [h.rooms[roomId] EXCEPT !.hintInterval = TRUE])
              ELSE m1
    IN  IF r1.roundTimer <= 0
        THEN endRound(m2, roomId, FALSE)
        ELSE Emit(m2, Event("timerUpdate", roomId, 0, <<>>, r1.isRoundActive))

\* ------------------------------------------------------------------- steps
\* the server state a handler starts from, with nothing emitted yet
M == [rooms |-> gameRooms, tm |-> timers, out |-> <<>>]

Op(op, sock, ok) == [op |-> op, sock |-> sock, ok |-> ok]

\* A handler run becomes a step when it changes the server's state or emits
\* something; a request dropped without a trace is not a step.
Commit(m, op) ==
  /\ events < MaxEvents
  /\ m.rooms # gameRooms \/ m.tm # timers \/ m.out # <<>> \/ sockets' # sockets
  /\ events' = events + 1
  /\ gameRooms' = m.rooms
  /\ timers' = m.tm
  /\ out' = m.out
  /\ lastOp' = op

IsOpen(s) == s \in 1..Len(sockets) /\ sockets[s].open

RoomOf(s) == sockets[s].currentRoomId

\* io.on("connection"): a new socket with a fresh id and currentRoomId = null
\* (one newcomer at a time: no other socket is still without a room)
Connect ==
  /\ Len(sockets) < MaxSockets
  /\ \A s \in 1..Len(sockets) : sockets[s].open => sockets[s].currentRoomId # NoRoom
  /\ sockets' = Append(sockets, [open |-> TRUE, currentRoomId |-> NoRoom])
  /\ UNCHANGED <<created, scoreAtLeave>>
  /\ Commit(M, Op("connection", Len(sockets) + 1, TRUE))

NewGameState(player) ==
  [players |-> <<player>>,
   messages |-> <<"created">>,
   drawingHistory |-> <<>>,
   isRoundActive |-> FALSE,
   isGameOver |-> FALSE,
   currentWord |-> <<>>,
   revealedIndices |-> <<>>,
   roundTimer |-> RoundSeconds,
   drawerId |-> player.id,
   ownerId |-> player.id,
   totalRounds |-> DefaultTotalRounds,
   currentRound |-> 0,
   roundInterval |-> NoSocket,
   hintInterval |-> FALSE,
   wordChoiceTimeout |-> NoSocket,
   cooldowns |-> 0]

\* one room is live at a time: a second room is created only after the first is closed
CreateRoom(s, name) ==
  /\ IsOpen(s)
  /\ created < MaxRooms
  /\ DOMAIN gameRooms = {}
  /\ LET roomId == created + 1
         player == Player(s, name, TRUE, TRUE)
         m1 == [M EXCEPT !.rooms = (roomId :> NewGameState(player))]
         m2 == Emit(m1, Event("roomCreated", roomId, s, <<>>, FALSE))
     IN  /\ sockets' = [sockets EXCEPT ![s].currentRoomId = roomId]
         /\ created' = roomId
         /\ scoreAtLeave' = scoreAtLeave
         /\ Commit(broadcastGameState(m2, roomId), Op("createRoom", s, TRUE))

\* (variant: the returning player starts again from 0)
Rejoin_FromZero(r, existing, s) ==
  [r EXCEPT !.players[existing].id = s, !.players[existing].disconnected = FALSE,
            !.players[existing].score = 0]

\* an existing, disconnected record is taken over by the joining socket
Rejoin(r, existing, s) ==
  [r EXCEPT !.players[existing].id = s, !.players[existing].disconnected = FALSE]

\* (variant: the flags are assigned whether or not a round is active)
AssignsRole_AnyPhase(r, me) == me > 0

\* if (me && !room.gameState.isRoundActive)
AssignsRole(r, me) == me > 0 /\ ~r.isRoundActive

JoinRoomResult(m, s, name, roomId) ==
  IF ~HasRoom(m, roomId)
  THEN [m |-> Emit(m, Event("errorRoomNotFound", roomId, s, <<>>, FALSE)), ok |-> FALSE]
  ELSE
    LET r0 == m.rooms[roomId]
        existing == FindIndexByName(r0.players, name) + 1
    IN
    IF existing > 0 /\ ~r0.players[existing].disconnected
    THEN [m |-> Emit(m, Event("errorNameTaken", roomId, s, <<>>, r0.isRoundActive)),
          ok |-> FALSE]
    ELSE
      LET r1 == IF existing > 0
                THEN PushMessage(Rejoin(r0, existing, s), "rejoined")
                ELSE PushMessage(
                       [r0 EXCEPT !.players = Append(@, Player(s, name, FALSE, FALSE))],
                       "joined")
          me == FindIndexById(r1.players, s) + 1
          isOnlyPlayer == Len(ActivePlayers(r1.players)) = 1
          r2 == IF AssignsRole(r1, me)
                THEN LET flags == [r1 EXCEPT !.players[me].isDrawing = isOnlyPlayer,
                                             !.players[me].hasGuessed = isOnlyPlayer]
                     IN  IF isOnlyPlayer
                         THEN [flags EXCEPT !.ownerId = s, !.drawerId = s]
                         ELSE flags
                ELSE r1
      IN  [m |-> broadcastGameState(SetRoom(m, roomId, r2), roomId), ok |-> TRUE]

JoinRoom(s, name, roomId) ==
  /\ IsOpen(s)
  /\ LET res == JoinRoomResult(M, s, name, roomId)
     IN  /\ sockets' = IF res.ok THEN [sockets EXCEPT ![s].currentRoomId = roomId]
                       ELSE sockets
         /\ UNCHANGED <<created, scoreAtLeave>>
         /\ Commit(res.m, Op("joinRoom", s, res.ok))

\* (variant: counts the disconnected players' records too)
NeedsMorePlayers_CountsAll(players) == Len(players) < MinPlayers

\* activePlayers.length < 2 in startGame
NeedsMorePlayers(players) == Len(ActivePlayers(players)) < MinPlayers

\* startGame: [m, ok], ok when both guards pass and the game is (re)started
StartGameResult(m, s, totalRounds) ==
  LET roomId == RoomOf(s) IN
  IF roomId = NoRoom \/ ~HasRoom(m, roomId) THEN [m |-> m, ok |-> FALSE]
  ELSE
    LET r0 == m.rooms[roomId] IN
    IF ~(s = r0.ownerId /\ ~r0.isRoundActive) THEN [m |-> m, ok |-> FALSE]
    ELSE IF NeedsMorePlayers(r0.players)
    THEN [m |-> Emit(m, Event("errorNeedPlayers", roomId, s, <<>>, FALSE)), ok |-> FALSE]
    ELSE
      LET zeroed == [k \in 1..Len(r0.players) |-> [r0.players[k] EXCEPT !.score = 0]]
          active0 == ActivePlayers(zeroed)
          ownerIndex == FindIndexById(active0, s)
          activePlayers ==
            IF ownerIndex > 0
            THEN <<active0[ownerIndex + 1]>>
                 \o SubSeq(active0, 1, ownerIndex)
                 \o SubSeq(active0, ownerIndex + 2, Len(active0))
            ELSE active0
          r1 == [r0 EXCEPT
                   !.totalRounds = totalRounds,
                   !.currentRound = 1,
                   !.isGameOver = FALSE,
                   !.players = activePlayers \o DisconnectedPlayers(zeroed),
                   !.drawerId = activePlayers[Len(activePlayers)].id]
      IN  [m |-> startRound(SetRoom(m, roomId, r1), roomId), ok |-> TRUE]

StartGame(s, totalRounds) ==
  /\ IsOpen(s)
  /\ LET res == StartGameResult(M, s, totalRounds)
     IN  /\ UNCHANGED <<sockets, created, scoreAtLeave>>
         /\ Commit(res.m, Op("startGame", s, res.ok))

PlayAgainResult(m, s) ==
  LET roomId == RoomOf(s) IN
  IF roomId = NoRoom \/ ~HasRoom(m, roomId) THEN [m |-> m, ok |-> FALSE]
  ELSE
    LET r0 == m.rooms[roomId] IN
    IF s # r0.ownerId THEN [m |-> m, ok |-> FALSE]
    ELSE
      LET r1 == [r0 EXCEPT
                   !.isGameOver = FALSE,
                   !.isRoundActive = FALSE,
                   !.currentRound = 0,
                   !.messages = <<"newGame">>,
                   !.drawingHistory = <<>>,
                   !.players = [k \in 1..Len(r0.players) |->
                      [r0.players[k] EXCEPT !.score = 0,
                                            !.isDrawing = (r0.players[k].id = s),
                                            !.hasGuessed = (r0.players[k].id = s)]],
                   !.drawerId = s]
      IN  [m |-> broadcastGameState(SetRoom(m, roomId, r1), roomId), ok |-> TRUE]

PlayAgain(s) ==
  /\ IsOpen(s)
  /\ LET res == PlayAgainResult(M, s)
     IN  /\ UNCHANGED <<sockets, created, scoreAtLeave>>
         /\ Commit(res.m, Op("playAgain", s, res.ok))

\* an undo that removes nothing
Pop_Nothing(arr) == arr

\* messages.pop(), drawingHistory.pop()
Pop(arr) == IF Len(arr) = 0 THEN arr ELSE SubSeq(arr, 1, Len(arr) - 1)

WordChosenResult(m, s, word) ==
  LET roomId == RoomOf(s) IN
  IF roomId = NoRoom \/ ~HasRoom(m, roomId) THEN [m |-> m, ok |-> FALSE]
  ELSE
    LET r0 == m.rooms[roomId] IN
    IF s # r0.drawerId \/ r0.isRoundActive THEN [m |-> m, ok |-> FALSE]
    ELSE
      LET r1 == [r0 EXCEPT !.wordChoiceTimeout = NoSocket]
          drawer == FindIndexById(r1.players, s) + 1
      IN
      IF drawer = 0 THEN [m |-> SetRoom(m, roomId, r1), ok |-> FALSE]
      ELSE
        LET r2 == [r1 EXCEPT
                     !.currentWord = word,
                     !.isRoundActive = TRUE,
                     !.messages = Append(Pop(@), "nowDrawing"),
                     !.roundInterval = s]
            \* the handle of an interval still running is overwritten, not cleared
            tm == IF r1.roundInterval # NoSocket
                  THEN [m.tm EXCEPT !.leaked = Append(@, r1.roundInterval)]
                  ELSE m.tm
            m1 == [SetRoom(m, roomId, r2) EXCEPT !.tm = tm]
        IN  [m |-> broadcastFullWordToDrawer(broadcastGameState(m1, roomId), roomId),
             ok |-> TRUE]

WordChosen(s, word) ==
  /\ IsOpen(s)
  /\ LET res == WordChosenResult(M, s, word)
     IN  /\ UNCHANGED <<sockets, created, scoreAtLeave>>
         /\ Commit(res.m, Op("wordChosen", s, res.ok))

\* a distance in which a substitution costs as much as a deletion and an insertion
levenshteinDistance_NoSubstitution(a, b) ==
  LET matrix[j \in 0..Len(b), i \in 0..Len(a)] ==
        IF j = 0 THEN i
        ELSE IF i = 0 THEN j
        ELSE LET cost == IF Lower(a[i]) = Lower(b[j]) THEN 0 ELSE 2
             IN  Min2(Min2(matrix[j, i - 1] + 1, matrix[j - 1, i] + 1),
                      matrix[j - 1, i - 1] + cost)
  IN  matrix[Len(b), Len(a)]

levenshteinDistance(a, b) ==
  IF Len(a) = 0 THEN Len(b)
  ELSE IF Len(b) = 0 THEN Len(a)
  ELSE
    LET matrix[j \in 0..Len(b), i \in 0..Len(a)] ==
          IF j = 0 THEN i
          ELSE IF i = 0 THEN j
          ELSE LET cost == IF Lower(a[i]) = Lower(b[j]) THEN 0 ELSE 1
               IN  Min2(Min2(matrix[j, i - 1] + 1, matrix[j - 1, i] + 1),
                        matrix[j - 1, i - 1] + cost)
    IN  matrix[Len(b), Len(a)]

\* sendMessage: [m, ok, correct]; ok when the guess is taken (not silently dropped)
SendMessageResult(m, s, text) ==
  LET roomId == RoomOf(s)
      dropped == [m |-> m, ok |-> FALSE, correct |-> FALSE]
  IN
  IF roomId = NoRoom \/ ~HasRoom(m, roomId) THEN dropped
  ELSE
    LET r0 == m.rooms[roomId]
        player == FindIndexById(r0.players, s) + 1
    IN
    IF player = 0 THEN dropped
    ELSE IF r0.players[player].isDrawing \/ r0.players[player].hasGuessed
            \/ ~r0.isRoundActive
    THEN dropped
    ELSE
      LET normalizedGuess == ToLowerCase(Trim(text))
          normalizedWord == ToLowerCase(Trim(r0.currentWord))
      IN
      IF normalizedGuess = normalizedWord
      THEN
        LET points == guesserPoints(r0.roundTimer)
            r1 == [r0 EXCEPT !.players[player].hasGuessed = TRUE,
                             !.players[player].score = @ + points]
            drawer == FindIndexDrawing(r1.players) + 1
            r2 == IF drawer > 0
                  THEN [r1 EXCEPT !.players[drawer].score = @ + DrawerPoints]
                  ELSE r1
            r3 == PushMessage(r2, "guessed")
            m1 == SetRoom(m, roomId, r3)
            m2 == IF AllGuessed(r3.players) THEN endRound(m1, roomId, TRUE) ELSE m1
        IN  [m |-> broadcastGameState(m2, roomId), ok |-> TRUE, correct |-> TRUE]
      ELSE
        LET m1 == Emit(m, Event("playerGuessed", roomId, 0, text, r0.isRoundActive))
            distance == levenshteinDistance(normalizedGuess, normalizedWord)
            m2 == IF r0.currentWord # <<>> /\ distance <= 3
                  THEN Emit(m1, Event(IF distance = 1 THEN "closeGuessOneOff"
                                      ELSE "closeGuessWarmer",
                                      roomId, s, <<>>, r0.isRoundActive))
                  ELSE m1
        IN  [m |-> m2, ok |-> TRUE, correct |-> FALSE]

SendMessage(s, text) ==
  /\ IsOpen(s)
  /\ LET res == SendMessageResult(M, s, text)
     IN  /\ UNCHANGED <<sockets, created, scoreAtLeave>>
         /\ Commit(res.m, [op |-> "sendMessage", sock |-> s, ok |-> res.ok])

\* a leaving owner that forgets to hand the room over
TransferOwner_Kept(r, activePlayers, s) == r

\* ownership passes to the first connected player when the owner leaves
TransferOwner(r, activePlayers, s) ==
  IF s = r.ownerId
  THEN PushMessage([r EXCEPT !.ownerId = activePlayers[1].id], "newHost")
  ELSE r

DisconnectResult(m, s) ==
  LET roomId == RoomOf(s) IN
  IF roomId = NoRoom \/ ~HasRoom(m, roomId) THEN m
  ELSE
    LET r0 == m.rooms[roomId]
        playerIndex == FindIndexById(r0.players, s)
    IN
    IF playerIndex = -1 THEN m
    ELSE
      LET r1 == PushMessage([r0 EXCEPT !.players[playerIndex + 1].disconnected = TRUE],
                            "left")
          activePlayers == ActivePlayers(r1.players)
      IN
      IF Len(activePlayers) = 0
      THEN broadcastGameState(
             [SetRoom(m, roomId, r1) EXCEPT !.tm.teardowns = Append(@, s)], roomId)
      ELSE
        LET r2 == TransferOwner(r1, activePlayers, s)
            m1 == SetRoom(m, roomId, r2)
            m2 == IF s = r2.drawerId THEN endRound(m1, roomId, FALSE)
                  ELSE IF AllGuessed(r2.players) /\ Len(activePlayers) > 1
                       THEN endRound(m1, roomId, TRUE)
                       ELSE m1
        IN  broadcastGameState(m2, roomId)

Disconnect(s) ==
  /\ IsOpen(s)
  /\ sockets' = [sockets EXCEPT ![s].open = FALSE]
  /\ created' = created
  /\ scoreAtLeave' =
       IF RoomOf(s) # NoRoom /\ HasRoom(M, RoomOf(s))
          /\ FindIndexById(gameRooms[RoomOf(s)].players, s) # -1
       THEN LET p == gameRooms[RoomOf(s)].players[
                       FindIndexById(gameRooms[RoomOf(s)].players, s) + 1]
            IN  (<<RoomOf(s), ToLowerCase(p.name)>> :> p.score) @@ scoreAtLeave
       ELSE scoreAtLeave
  /\ Commit(DisconnectResult(M, s), Op("disconnect", s, TRUE))

\* ------------------------------------------------------------- drawing log
\* DrawingPath values are opaque to the server
Paths == {"p", "q"}

\* a drawing handler that serves every connection of the room
IsDrawer_Anyone(r, s) == TRUE

\* socket.id === room.gameState.drawerId
IsDrawer(r, s) == s = r.drawerId

StartPathResult(m, s, path) ==
  LET roomId == RoomOf(s) IN
  IF roomId = NoRoom \/ ~HasRoom(m, roomId) THEN [m |-> m, ok |-> FALSE]
  ELSE
    LET r0 == m.rooms[roomId] IN
    IF ~IsDrawer(r0, s) THEN [m |-> m, ok |-> FALSE]
    ELSE
      LET r1 == [r0 EXCEPT !.drawingHistory = Append(@, path)]
      IN  [m |-> Emit(SetRoom(m, roomId, r1),
                      Event("pathStarted", roomId, -s, <<path>>, r1.isRoundActive)),
           ok |-> TRUE]

\* the log is capped at MaxPaths paths
StartPath(s, path) ==
  /\ IsOpen(s)
  /\ RoomOf(s) \in DOMAIN gameRooms => Len(gameRooms[RoomOf(s)].drawingHistory) < MaxPaths
  /\ LET res == StartPathResult(M, s, path)
     IN  /\ UNCHANGED <<sockets, created, scoreAtLeave>>
         /\ Commit(res.m, Op("startPath", s, res.ok))

DrawPathResult(m, s, path) ==
  LET roomId == RoomOf(s) IN
  IF roomId = NoRoom \/ ~HasRoom(m, roomId) THEN [m |-> m, ok |-> FALSE]
  ELSE
    LET r0 == m.rooms[roomId] IN
    IF ~(IsDrawer(r0, s) /\ Len(r0.drawingHistory) > 0) THEN [m |-> m, ok |-> FALSE]
    ELSE
      LET r1 == [r0 EXCEPT !.drawingHistory[Len(r0.drawingHistory)] = path]
      IN  [m |-> Emit(SetRoom(m, roomId, r1),
                      Event("pathUpdated", roomId, -s, <<path>>, r1.isRoundActive)),
           ok |-> TRUE]

DrawPath(s, path) ==
  /\ IsOpen(s)
  /\ LET res == DrawPathResult(M, s, path)
     IN  /\ UNCHANGED <<sockets, created, scoreAtLeave>>
         /\ Commit(res.m, Op("drawPath", s, res.ok))

UndoResult(m, s) ==
  LET roomId == RoomOf(s) IN
  IF roomId = NoRoom \/ ~HasRoom(m, roomId) THEN [m |-> m, ok |-> FALSE]
  ELSE
    LET r0 == m.rooms[roomId] IN
    IF ~IsDrawer(r0, s) THEN [m |-> m, ok |-> FALSE]
    ELSE
      LET r1 == [r0 EXCEPT !.drawingHistory = Pop(@)]
      IN  [m |-> Emit(SetRoom(m, roomId, r1),
                      Event("drawingUndone", roomId, 0, <<>>, r1.isRoundActive)),
           ok |-> TRUE]

Undo(s) ==
  /\ IsOpen(s)
  /\ LET res == UndoResult(M, s)
     IN  /\ UNCHANGED <<sockets, created, scoreAtLeave>>
         /\ Commit(res.m, Op("undo", s, res.ok))

ClearCanvasResult(m, s) ==
  LET roomId == RoomOf(s) IN
  IF roomId = NoRoom \/ ~HasRoom(m, roomId) THEN [m |-> m, ok |-> FALSE]
  ELSE
    LET r0 == m.rooms[roomId] IN
    IF ~IsDrawer(r0, s) THEN [m |-> m, ok |-> FALSE]
    ELSE
      LET r1 == [r0 EXCEPT !.drawingHistory = <<>>]
      IN  [m |-> Emit(SetRoom(m, roomId, r1),
                      Event("canvasCleared", roomId, 0, <<>>, r1.isRoundActive)),
           ok |-> TRUE]

ClearCanvas(s) ==
  /\ IsOpen(s)
  /\ LET res == ClearCanvasResult(M, s)
     IN  /\ UNCHANGED <<sockets, created, scoreAtLeave>>
         /\ Commit(res.m, Op("clearCanvas", s, res.ok))

\* ------------------------------------------------------------- classifier
\* the array without its k-th element
RemoveAt(seq, k) == SubSeq(seq, 1, k - 1) \o SubSeq(seq, k + 1, Len(seq))

\* analyzeDrawing up to the await: the call to the classifier is in flight
AnalyzeDrawingResult(m, s) ==
  LET roomId == RoomOf(s) IN
  IF roomId = NoRoom \/ ~HasRoom(m, roomId) \/ ~m.rooms[roomId].isRoundActive
  THEN [m |-> m, ok |-> FALSE]
  ELSE [m |-> [m EXCEPT !.tm.analyses = Append(@, s)], ok |-> TRUE]

\* calls in flight are capped at MaxAnalyses
AnalyzeDrawing(s) ==
  /\ IsOpen(s)
  /\ Len(timers.analyses) < MaxAnalyses
  /\ LET res == AnalyzeDrawingResult(M, s)
     IN  /\ UNCHANGED <<sockets, created, scoreAtLeave>>
         /\ Commit(res.m, Op("analyzeDrawing", s, res.ok))

\* analyzeDrawing after the await: the classifier answers call k (a failure is
\* caught and logged, like an answer that suggests nothing)
AnalysisResult(m, k, shouldInitiateSkipVote) ==
  LET s == m.tm.analyses[k]
      m1 == [m EXCEPT !.tm.analyses = RemoveAt(@, k)]
  IN  IF shouldInitiateSkipVote
      THEN Emit(m1, Event("aiSuggestion", RoomOf(s), 0, <<>>,
                          HasRoom(m, RoomOf(s)) /\ m.rooms[RoomOf(s)].isRoundActive))
      ELSE m1

AnalysisReturns(k, shouldInitiateSkipVote) ==
  /\ k \in 1..Len(timers.analyses)
  /\ UNCHANGED <<sockets, created, scoreAtLeave>>
  /\ Commit(AnalysisResult(M, k, shouldInitiateSkipVote),
            Op("analysisResult", timers.analyses[k], TRUE))

\* ------------------------------------------------------------------ timers
Rnd == 0..1

\* Requests and the other timers are taken at the instants of the countdown listed
\* here (and whenever no countdown runs); between two of them only the round
\* interval fires, once a second.
Instants == {HintAt, 1}

\* the value of the countdown after the firing that next reaches an instant of
\* Instants or zero: a firing in between only decrements roundTimer and emits
\* timerUpdate
NextInstant(roundTimer) ==
  LET stops == {v \in Instants \cup {0} : v < roundTimer}
  IN  IF stops = {} THEN roundTimer - 1
      ELSE CHOOSE v \in stops : \A w \in stops : w <= v

\* the interval fires once a second until the countdown reaches an instant of
\* Instants or zero, or the room is gone; the result carries what the last
\* firing emitted
Countdown(m, sock, roomId, rnd) ==
  IF ~HasRoom(m, RoomOf(sock)) THEN gameTick([m EXCEPT !.out = <<>>], RoomOf(sock), rnd)
  ELSE gameTick([m EXCEPT !.out = <<>>,
                          !.rooms[RoomOf(sock)].roundTimer = NextInstant(@) + 1],
                RoomOf(sock), rnd)

\* the interval room.roundInterval refers to fires
RoundIntervalFires(roomId, rnd) ==
  /\ roomId \in DOMAIN gameRooms
  /\ gameRooms[roomId].roundInterval # NoSocket
  /\ UNCHANGED <<sockets, created, scoreAtLeave>>
  /\ Commit(Countdown(M, gameRooms[roomId].roundInterval, roomId, rnd),
            Op("gameTick", NoSocket, TRUE))

\* an interval whose handle was overwritten fires: nothing can clear it
LeakedIntervalFires(k, rnd) ==
  /\ k \in 1..Len(timers.leaked)
  /\ UNCHANGED <<sockets, created, scoreAtLeave>>
  /\ Commit(gameTick(M, RoomOf(timers.leaked[k]), rnd),
            Op("leakedTick", NoSocket, TRUE))

\* the hint interval fires (every 10 seconds once started)
HintIntervalFires(roomId, rnd) ==
  /\ roomId \in DOMAIN gameRooms
  /\ gameRooms[roomId].hintInterval
  /\ UNCHANGED <<sockets, created, scoreAtLeave>>
  /\ Commit(revealHint(M, roomId, rnd), Op("revealHint", NoSocket, TRUE))

\* a window that closes without forfeiting the turn
WordChoiceTimeoutResult_Ignored(m, roomId) ==
  SetRoom(m, roomId, [m.rooms[roomId] EXCEPT !.wordChoiceTimeout = NoSocket])

\* the 15 s timeout set by startRound fires; the handle is dead from then on
WordChoiceTimeoutResult(m, roomId) ==
  LET newDrawerId == m.rooms[roomId].wordChoiceTimeout
      r0 == [m.rooms[roomId] EXCEPT !.wordChoiceTimeout = NoSocket]
  IN  IF ~r0.isRoundActive /\ r0.drawerId = newDrawerId
      THEN startRound(
             broadcastGameState(SetRoom(m, roomId, PushMessage(r0, "tookTooLong")),
                                roomId),
             roomId)
      ELSE SetRoom(m, roomId, r0)

WordChoiceTimeoutFires(roomId) ==
  /\ roomId \in DOMAIN gameRooms
  /\ gameRooms[roomId].wordChoiceTimeout # NoSocket
  /\ UNCHANGED <<sockets, created, scoreAtLeave>>
  /\ Commit(WordChoiceTimeoutResult(M, roomId), Op("wordChoiceTimeout", NoSocket, TRUE))

\* the 5 s timeout set by endRound fires
CooldownFires(roomId) ==
  /\ roomId \in DOMAIN gameRooms
  /\ gameRooms[roomId].cooldowns > 0
  /\ UNCHANGED <<sockets, created, scoreAtLeave>>
  /\ Commit(startRound(SetRoom(M, roomId,
                               [gameRooms[roomId] EXCEPT !.cooldowns = @ - 1]),
                       roomId),
            Op("cooldown", NoSocket, TRUE))

\* the 5 min timeout set by the last player's disconnect fires
TeardownResult(m, k) ==
  LET roomId == RoomOf(m.tm.teardowns[k])
      m1 == [m EXCEPT !.tm.teardowns = RemoveAt(@, k)]
  IN  IF HasRoom(m1, roomId)
         /\ \A j \in 1..Len(m1.rooms[roomId].players) :
              m1.rooms[roomId].players[j].disconnected
      THEN [m1 EXCEPT !.rooms = [id \in (DOMAIN m1.rooms) \ {roomId} |-> m1.rooms[id]]]
      ELSE m1

\* timeouts of one delay fire in the order they were set: the oldest is next
TeardownFires(k) ==
  /\ k \in 1..Len(timers.teardowns)
  /\ k = 1
  /\ UNCHANGED <<sockets, created, scoreAtLeave>>
  /\ Commit(TeardownResult(M, k), Op("teardown", NoSocket, TRUE))

\* ------------------------------------------------------------ specification
Init ==
  /\ sockets = <<>>
  /\ gameRooms = <<>>
  /\ timers = [leaked |-> <<>>, teardowns |-> <<>>, analyses |-> <<>>]
  /\ created = 0
  /\ out = <<>>
  /\ lastOp = Op("listen", NoSocket, TRUE)
  /\ events = 0
  /\ scoreAtLeave = <<>>

Next ==
  \/ Connect
  \/ \E s \in SocketIds, name \in CreatorNames : CreateRoom(s, name)
  \/ \E s \in SocketIds, name \in JoinerNames, roomId \in RoomIds : JoinRoom(s, name, roomId)
  \/ \E s \in SocketIds, totalRounds \in 1..MaxTotalRounds : StartGame(s, totalRounds)
  \/ \E s \in SocketIds : PlayAgain(s)
  \/ \E s \in SocketIds, word \in Words : WordChosen(s, word)
  \/ \E s \in SocketIds, text \in Texts : SendMessage(s, text)
  \/ \E s \in SocketIds : Disconnect(s)
  \/ \E s \in SocketIds, path \in Paths : StartPath(s, path)
  \/ \E s \in SocketIds, path \in Paths : DrawPath(s, path)
  \/ \E s \in SocketIds : Undo(s)
  \/ \E s \in SocketIds : ClearCanvas(s)
  \/ \E s \in SocketIds : AnalyzeDrawing(s)
  \/ \E k \in 1..MaxAnalyses, vote \in BOOLEAN : AnalysisReturns(k, vote)
  \/ \E roomId \in RoomIds, rnd \in Rnd : RoundIntervalFires(roomId, rnd)
  \/ \E k \in 1..MaxEvents, rnd \in Rnd : LeakedIntervalFires(k, rnd)
  \/ \E roomId \in RoomIds, rnd \in Rnd : HintIntervalFires(roomId, rnd)
  \/ \E roomId \in RoomIds : WordChoiceTimeoutFires(roomId)
  \/ \E roomId \in RoomIds : CooldownFires(roomId)
  \/ \E k \in 1..MaxSockets : TeardownFires(k)

Spec == Init /\ [][Next]_vars

\* A round in progress with three players: the state after Al creates the room,
\* Bo and Cy join it, Al starts the game and chooses "ab cd".
TrioNames == { <<"a", "L">>, <<"B", "o">>, <<"C", "y">> }

InitTrio ==
  /\ sockets = << [open |-> TRUE, currentRoomId |-> 1],
                  [open |-> TRUE, currentRoomId |-> 1],
                  [open |-> TRUE, currentRoomId |-> 1] >>
  /\ LET m0 == [rooms |-> (1 :> NewGameState(Player(1, <<"A", "l">>, TRUE, TRUE))),
                tm |-> [leaked |-> <<>>, teardowns |-> <<>>, analyses |-> <<>>],
                out |-> <<>>]
         m1 == JoinRoomResult(m0, 2, <<"B", "o">>, 1).m
         m2 == JoinRoomResult(Quiet(m1), 3, <<"C", "y">>, 1).m
         m3 == StartGameResult(Quiet(m2), 1, MaxTotalRounds).m
         m4 == WordChosenResult(Quiet(m3), 1, <<"a", "b", " ", "c", "d">>).m
     IN  /\ gameRooms = m4.rooms
         /\ timers = m4.tm
         /\ out = m4.out
  /\ created = 1
  /\ lastOp = Op("wordChosen", 1, TRUE)
  /\ events = MaxEvents - MaxTrioEvents
  /\ scoreAtLeave = <<>>

NextTrio ==
  \/ Connect
  \/ \E s \in SocketIds, name \in TrioNames, roomId \in RoomIds : JoinRoom(s, name, roomId)
  \/ \E s \in SocketIds, totalRounds \in 1..MaxTotalRounds : StartGame(s, totalRounds)
  \/ \E s \in SocketIds : PlayAgain(s)
  \/ \E s \in SocketIds, word \in Words : WordChosen(s, word)
  \/ \E s \in SocketIds, text \in Texts : SendMessage(s, text)
  \/ \E s \in SocketIds : Disconnect(s)
  \/ \E s \in SocketIds, path \in Paths : StartPath(s, path)
  \/ \E s \in SocketIds, path \in Paths : DrawPath(s, path)
  \/ \E s \in SocketIds : Undo(s)
  \/ \E s \in SocketIds : ClearCanvas(s)
  \/ \E s \in SocketIds : AnalyzeDrawing(s)
  \/ \E k \in 1..MaxAnalyses, vote \in BOOLEAN : AnalysisReturns(k, vote)
  \/ \E roomId \in RoomIds, rnd \in Rnd : RoundIntervalFires(roomId, rnd)
  \/ \E k \in 1..MaxEvents, rnd \in Rnd : LeakedIntervalFires(k, rnd)
  \/ \E roomId \in RoomIds, rnd \in Rnd : HintIntervalFires(roomId, rnd)
  \/ \E roomId \in RoomIds : WordChoiceTimeoutFires(roomId)
  \/ \E roomId \in RoomIds : CooldownFires(roomId)
  \/ \E k \in 1..MaxSockets : TeardownFires(k)

SpecTrio == InitTrio /\ [][NextTrio]_vars

\* Two rooms side by side: nothing in createRoom or joinRoom looks at the room
\* the connection is already in, so a connection of one room can open or enter
\* another. The run starts in a two-player round of room 1, drawn by its owner.
PairRoomIds == 1..MaxPairRooms

\* createRoom issued while other rooms are live
CreateAnotherRoom(s, name) ==
  /\ IsOpen(s)
  /\ created < MaxPairRooms
  /\ LET roomId == created + 1
         player == Player(s, name, TRUE, TRUE)
         m1 == [M EXCEPT !.rooms = @ @@ (roomId :> NewGameState(player))]
         m2 == Emit(m1, Event("roomCreated", roomId, s, <<>>, FALSE))
     IN  /\ sockets' = [sockets EXCEPT ![s].currentRoomId = roomId]
         /\ created' = roomId
         /\ scoreAtLeave' = scoreAtLeave
         /\ Commit(broadcastGameState(m2, roomId), Op("createRoom", s, TRUE))

InitPair ==
  /\ sockets = << [open |-> TRUE, currentRoomId |-> 1],
                  [open |-> TRUE, currentRoomId |-> 1] >>
  /\ LET m0 == [rooms |-> (1 :> NewGameState(Player(1, <<"A", "l">>, TRUE, TRUE))),
                tm |-> [leaked |-> <<>>, teardowns |-> <<>>, analyses |-> <<>>],
                out |-> <<>>]
         m1 == JoinRoomResult(m0, 2, <<"B", "o">>, 1).m
         m2 == StartGameResult(Quiet(m1), 1, MaxTotalRounds).m
         m3 == WordChosenResult(Quiet(m2), 1, <<"a", "b", " ", "c", "d">>).m
     IN  /\ gameRooms = m3.rooms
         /\ timers = m3.tm
         /\ out = m3.out
  /\ created = 1
  /\ lastOp = Op("wordChosen", 1, TRUE)
  /\ events = MaxEvents - MaxPairEvents
  /\ scoreAtLeave = <<>>

NextPair ==
  \/ \E s \in SocketIds, name \in CreatorNames : CreateAnotherRoom(s, name)
  \/ \E s \in SocketIds, name \in JoinerNames, roomId \in PairRoomIds : JoinRoom(s, name, roomId)
  \/ \E s \in SocketIds, totalRounds \in 1..MaxTotalRounds : StartGame(s, totalRounds)
  \/ \E s \in SocketIds, word \in Words : WordChosen(s, word)
  \/ \E s \in SocketIds, text \in Texts : SendMessage(s, text)
  \/ \E s \in SocketIds : Disconnect(s)
  \/ \E roomId \in PairRoomIds, rnd \in Rnd : RoundIntervalFires(roomId, rnd)
  \/ \E roomId \in PairRoomIds, rnd \in Rnd : HintIntervalFires(roomId, rnd)
  \/ \E roomId \in PairRoomIds : WordChoiceTimeoutFires(roomId)
  \/ \E roomId \in PairRoomIds : CooldownFires(roomId)

SpecPair == InitPair /\ [][NextPair]_vars

\* A started game left to its timers: the run starts when the owner of a
\* three-player room has started the game and chosen a word; requests are counted against
\* MaxLiveEvents, timer firings are not; the owner sends no startGame and no
\* playAgain, and nobody leaves when only two players are connected.
Fires(m, op) ==
  /\ lastOp' = op
  /\ events' = events
  /\ \E done \in {m} :
       /\ done.rooms # gameRooms \/ done.tm # timers \/ done.out # <<>>
       /\ gameRooms' = done.rooms
       /\ timers' = done.tm
       /\ out' = done.out

\* An interval that nothing clears fires for ever: the countdown it decrements
\* is compared with HintAt and with zero only, so its values below -MaxOverrun
\* are taken as one, and so are the cool-downs it piles up beyond MaxCooldowns.
Saturated(m) ==
  [m EXCEPT !.rooms = [id \in DOMAIN m.rooms |->
                         [m.rooms[id] EXCEPT !.roundTimer = Max2(@, -MaxOverrun),
                                             !.cooldowns = Min2(@, MaxCooldowns)]]]

RoundIntervalDue(roomId, rnd) ==
  /\ roomId \in DOMAIN gameRooms
  /\ gameRooms[roomId].roundInterval # NoSocket
  /\ UNCHANGED <<sockets, created, scoreAtLeave>>
  /\ Fires(Saturated(Countdown(M, gameRooms[roomId].roundInterval, roomId, rnd)),
           Op("gameTick", NoSocket, TRUE))

HintIntervalDue(roomId, rnd) ==
  /\ roomId \in DOMAIN gameRooms
  /\ gameRooms[roomId].hintInterval
  /\ UNCHANGED <<sockets, created, scoreAtLeave>>
  /\ Fires(revealHint(M, roomId, rnd), Op("revealHint", NoSocket, TRUE))

WordChoiceTimeoutDue(roomId) ==
  /\ roomId \in DOMAIN gameRooms
  /\ gameRooms[roomId].wordChoiceTimeout # NoSocket
  /\ UNCHANGED <<sockets, created, scoreAtLeave>>
  /\ Fires(WordChoiceTimeoutResult(M, roomId), Op("wordChoiceTimeout", NoSocket, TRUE))

CooldownDue(roomId) ==
  /\ roomId \in DOMAIN gameRooms
  /\ gameRooms[roomId].cooldowns > 0
  /\ UNCHANGED <<sockets, created, scoreAtLeave>>
  /\ Fires(startRound(SetRoom(M, roomId,
                              [gameRooms[roomId] EXCEPT !.cooldowns = @ - 1]),
                      roomId),
           Op("cooldown", NoSocket, TRUE))

\* connection s is in a room where more than two players are connected
InRoomOfSpare(s) ==
  /\ RoomOf(s) \in DOMAIN gameRooms
  /\ Len(ActivePlayers(gameRooms[RoomOf(s)].players)) > MinPlayers

\* a disconnect that leaves at least two players connected
DisconnectOfSpare(s) ==
  /\ IsOpen(s)
  /\ InRoomOfSpare(s)
  /\ Disconnect(s)

InitLive ==
  /\ sockets = << [open |-> TRUE, currentRoomId |-> 1],
                  [open |-> TRUE, currentRoomId |-> 1],
                  [open |-> TRUE, currentRoomId |-> 1] >>
  /\ LET m0 == [rooms |-> (1 :> NewGameState(Player(1, <<"A", "l">>, TRUE, TRUE))),
                tm |-> [leaked |-> <<>>, teardowns |-> <<>>, analyses |-> <<>>],
                out |-> <<>>]
         m1 == JoinRoomResult(m0, 2, <<"B", "o">>, 1).m
         m2 == JoinRoomResult(Quiet(m1), 3, <<"C", "y">>, 1).m
         m3 == StartGameResult(Quiet(m2), 1, MaxTotalRounds).m
         m4 == WordChosenResult(Quiet(m3), 1, <<"a", "b", " ", "c", "d">>).m
     IN  /\ gameRooms = m4.rooms
         /\ timers = m4.tm
         /\ out = m4.out
  /\ created = 1
  /\ lastOp = Op("wordChosen", 1, TRUE)
  /\ events = MaxEvents - MaxLiveEvents
  /\ scoreAtLeave = <<>>

\* the drawers of this run choose the word that has letters to reveal
LiveWords == { <<"a", "b", " ", "c", "d">> }

NextLive ==
  \/ \E s \in SocketIds, name \in CreatorNames : CreateAnotherRoom(s, name)
  \/ \E s \in SocketIds, word \in LiveWords : WordChosen(s, word)
  \/ \E s \in SocketIds, text \in Texts : SendMessage(s, text)
  \/ \E s \in SocketIds : DisconnectOfSpare(s)
  \/ \E roomId \in PairRoomIds, rnd \in Rnd : RoundIntervalDue(roomId, rnd)
  \/ \E roomId \in PairRoomIds, rnd \in Rnd : HintIntervalDue(roomId, rnd)
  \/ \E roomId \in PairRoomIds : WordChoiceTimeoutDue(roomId)
  \/ \E roomId \in PairRoomIds : CooldownDue(roomId)

\* a timer that is due fires: the event loop runs every callback whose delay
\* has passed
FairTimers ==
  \A roomId \in PairRoomIds :
    /\ WF_vars(\E rnd \in Rnd : RoundIntervalDue(roomId, rnd))
    /\ WF_vars(\E rnd \in Rnd : HintIntervalDue(roomId, rnd))
    /\ WF_vars(WordChoiceTimeoutDue(roomId))
    /\ WF_vars(CooldownDue(roomId))

SpecLive == InitLive /\ [][NextLive]_vars /\ FairTimers

\* ----------------------------------------------------------- pure functions
\* The pure functions of the server, applied to every input of a bounded set:
\* the initial state holds a call, the step computes its result into out.
Strings(alphabet) == UNION {[1..n -> alphabet] : n \in 0..MaxLen}

MaskWords == Strings({"a", " ", "\t"})
RevealedLists == { <<>>, <<0>>, <<1>>, <<2>>, <<1, 0>>, <<0, 2>>, <<2, 1>>, <<0, 1, 2>> }

MaskCalls ==
  {[op |-> "getMaskedWord", word |-> w, revealedIndices |-> R] :
     w \in MaskWords, R \in RevealedLists}

DistanceStrings == Strings({"a", "A", "b"})

DistanceCalls ==
  {[op |-> "levenshteinDistance", a |-> a, b |-> b] :
     a \in DistanceStrings, b \in DistanceStrings}

\* roundTimer when a guess arrives: every second of the countdown
AwardCalls == {[op |-> "guesserPoints", roundTimer |-> s] : s \in 0..RoundSeconds}

PureCalls == MaskCalls \cup DistanceCalls \cup AwardCalls

InitPure ==
  /\ sockets = <<>>
  /\ gameRooms = <<>>
  /\ timers = [leaked |-> <<>>, teardowns |-> <<>>, analyses |-> <<>>]
  /\ created = 0
  /\ out = <<>>
  /\ lastOp \in PureCalls
  /\ events = 0
  /\ scoreAtLeave = <<>>

Returns(result) ==
  /\ out = <<>>
  /\ out' = <<result>>
  /\ UNCHANGED <<sockets, gameRooms, timers, created, lastOp, events, scoreAtLeave>>

MaskCall ==
  /\ lastOp.op = "getMaskedWord"
  /\ Returns(getMaskedWord(lastOp.word, lastOp.revealedIndices))

DistanceCall ==
  /\ lastOp.op = "levenshteinDistance"
  /\ Returns(levenshteinDistance(lastOp.a, lastOp.b))

AwardCall ==
  /\ lastOp.op = "guesserPoints"
  /\ Returns(guesserPoints(lastOp.roundTimer))

NextPure ==
  \/ MaskCall
  \/ DistanceCall
  \/ AwardCall

SpecPure == InitPure /\ [][NextPure]_vars

\* ------------------------------------------------------------------ phases
OpenSockets == {s \in 1..Len(sockets) : sockets[s].open}

\* the room connection s is in, when that room is in the registry
InRoom(s) == RoomOf(s) # NoRoom /\ RoomOf(s) \in DOMAIN gameRooms

Drawing(r) == r.isRoundActive

\* a drawer has been prompted and the word-choice timeout is pending
ChoosingWord(r) == ~r.isRoundActive /\ r.wordChoiceTimeout # NoSocket

GameOver(r) == ~r.isRoundActive /\ r.wordChoiceTimeout = NoSocket /\ r.isGameOver

\* the cool-down after a round: the timeout that starts the next turn is pending
RoundEnding(r) ==
  ~r.isRoundActive /\ r.wordChoiceTimeout = NoSocket /\ ~r.isGameOver /\ r.cooldowns > 0

Idle(r) ==
  ~r.isRoundActive /\ r.wordChoiceTimeout = NoSocket /\ ~r.isGameOver /\ r.cooldowns = 0

\* no two records of the roster belong to the same connection
DistinctIds(r) ==
  \A j, k \in 1..Len(r.players) : r.players[j].id = r.players[k].id => j = k

\* some non-space letter of the word is not revealed
SomeHidden(word, revealedIndices) ==
  \E i \in 1..Len(word) : word[i] # " " /\ ~Includes(revealedIndices, i - 1)

\* the masked text shows "_" at the place of every unrevealed non-space letter
HiddenStayHidden(word, revealedIndices, shown) ==
  /\ Len(shown) = 2 * Len(word) - 1
  /\ \A i \in 1..Len(word) :
       (word[i] # " " /\ ~Includes(revealedIndices, i - 1)) => shown[2 * i - 1] = "_"

C2_FirstRoundIsOne ==
  \A k \in 1..Len(out) :
    (lastOp.op = "startGame" /\ lastOp.ok /\ out[k].ev = "promptWordChoice")
      => gameRooms[out[k].room].currentRound = 1

\* ---------------------------------------------------------------------- C3
\* C3: whatever totalRounds >= 1 it carries, a startGame that is accepted leaves
\* every score at 0, totalRounds at the value sent, isGameOver false, the owner as
\* the drawer (drawerId, and isDrawing exactly on the owner), the owner prompted
\* with the word-choice timeout pending, and no round active.
C3_StartGameInitialises ==
  \A s \in OpenSockets, totalRounds \in 1..MaxTotalRounds :
    LET res == StartGameResult(M, s, totalRounds)
    IN  res.ok =>
          LET r == res.m.rooms[RoomOf(s)]
          IN  /\ \A k \in 1..Len(r.players) : r.players[k].score = 0
              /\ r.totalRounds = totalRounds
              /\ ~r.isGameOver
              /\ r.ownerId = s
              /\ r.drawerId = s
              /\ \A k \in 1..Len(r.players) : r.players[k].isDrawing <=> r.players[k].id = s
              /\ ChoosingWord(r)
              /\ r.wordChoiceTimeout = s
              /\ \E k \in 1..Len(res.m.out) :
                   res.m.out[k].ev = "promptWordChoice" /\ res.m.out[k].to = s
              /\ ~r.isRoundActive

\* ---------------------------------------------------------------------- C4
\* C4 as stated, for a game that has been started and is not over: a startGame
\* from the owner while fewer than 2 players are connected emits the
\* need-more-players error to the sender and changes nothing.
C4_AlwaysNotified ==
  \A s \in OpenSockets, totalRounds \in 1..MaxTotalRounds :
    (InRoom(s) /\ gameRooms[RoomOf(s)].ownerId = s
       /\ gameRooms[RoomOf(s)].currentRound >= 1 /\ ~gameRooms[RoomOf(s)].isGameOver
       /\ Len(ActivePlayers(gameRooms[RoomOf(s)].players)) < MinPlayers)
    => LET res == StartGameResult(M, s, totalRounds)
       IN  /\ res.m.rooms = gameRooms
           /\ res.m.tm = timers
           /\ res.m.out = <<Event("errorNeedPlayers", RoomOf(s), s, <<>>, FALSE)>>

\* C4, amended: a startGame from the owner while fewer than 2 players are connected
\* changes nothing; it emits the need-more-players error to the sender (and nothing
\* else) when no round is active, and nothing at all while a round is active.
C4_TooFewPlayers ==
  \A s \in OpenSockets, totalRounds \in 1..MaxTotalRounds :
    (InRoom(s) /\ gameRooms[RoomOf(s)].ownerId = s
       /\ Len(ActivePlayers(gameRooms[RoomOf(s)].players)) < MinPlayers)
    => LET res == StartGameResult(M, s, totalRounds)
       IN  /\ res.m.rooms = gameRooms
           /\ res.m.tm = timers
           /\ ~res.ok
           /\ res.m.out =
                IF gameRooms[RoomOf(s)].isRoundActive THEN <<>>
                ELSE <<Event("errorNeedPlayers", RoomOf(s), s, <<>>, FALSE)>>

\* the owner, alone with a disconnected player's record, has just been refused
C4_Witness ==
  /\ lastOp.op = "startGame"
  /\ ~lastOp.ok
  /\ InRoom(lastOp.sock)
  /\ gameRooms[RoomOf(lastOp.sock)].ownerId = lastOp.sock
  /\ Len(gameRooms[RoomOf(lastOp.sock)].players) >= MinPlayers
  /\ Len(ActivePlayers(gameRooms[RoomOf(lastOp.sock)].players)) < MinPlayers
  /\ out = <<Event("errorNeedPlayers", RoomOf(lastOp.sock), lastOp.sock, <<>>, FALSE)>>

\* ---------------------------------------------------------------------- C5
\* C5: a startGame changes the room or emits something only when it comes from
\* the owner while the room is Idle or game-over; from anyone else, or in
\* ChoosingWord, Drawing or the cool-down, it changes nothing and emits nothing.
C5_StartGameOnlyFromLobby ==
  \A s \in OpenSockets, totalRounds \in 1..MaxTotalRounds :
    LET res == StartGameResult(M, s, totalRounds)
    IN  (/\ res.m.rooms # gameRooms \/ res.m.tm # timers \/ res.m.out # <<>>
         /\ InRoom(s) => DistinctIds(gameRooms[RoomOf(s)]))
          => /\ InRoom(s)
             /\ gameRooms[RoomOf(s)].ownerId = s
             /\ Idle(gameRooms[RoomOf(s)]) \/ GameOver(gameRooms[RoomOf(s)])

\* ---------------------------------------------------------------------- C6
\* C6: a wordChosen changes the room or a timer only when it comes from the
\* current drawer while the room is in ChoosingWord for that drawer; from another
\* connection, or from the drawer in the lobby, in Drawing, in the cool-down or
\* after game over, it changes nothing and starts no timer.
C6_WordChosenOnlyWhenPrompted ==
  \A s \in OpenSockets, word \in Words :
    LET res == WordChosenResult(M, s, word)
    IN  (res.m.rooms # gameRooms \/ res.m.tm # timers)
          => /\ InRoom(s)
             /\ gameRooms[RoomOf(s)].drawerId = s
             /\ ChoosingWord(gameRooms[RoomOf(s)])
             /\ gameRooms[RoomOf(s)].wordChoiceTimeout = s

\* ---------------------------------------------------------------------- C7
\* C7: a guess that matches the word (trimmed, case-insensitively) with roundTimer
\* = t sets the guesser's hasGuessed, adds max(10, floor(0.6 t) + 10) to the
\* guesser's score and exactly 20 to the score of the current drawer (the player
\* of connection drawerId), changes no other score, and ends the round as guessed
\* exactly when every connected player other than the drawer has then guessed.
C7_CorrectGuessScores ==
  \A s \in OpenSockets, text \in Texts :
    LET res == SendMessageResult(M, s, text)
    IN  (res.correct /\ DistinctIds(gameRooms[RoomOf(s)])) =>
          LET r == gameRooms[RoomOf(s)]
              q == res.m.rooms[RoomOf(s)]
              g == FindIndexById(r.players, s) + 1
              t == r.roundTimer
              floor06 == CHOOSE n \in -1..RoundSeconds : 10 * n <= 6 * t /\ 6 * t < 10 * (n + 1)
              ended == /\ ~q.isRoundActive
                       /\ \E k \in 1..Len(res.m.out) : res.m.out[k].ev = "roundEnd"
                       /\ q.messages[Len(q.messages)] = "allGuessed"
          IN  /\ q.players[g].hasGuessed
              /\ q.players[g].score = r.players[g].score + Max2(10, floor06 + 10)
              /\ \A k \in 1..Len(r.players) :
                   q.players[k].score =
                     IF k = g THEN q.players[g].score
                     ELSE IF r.players[k].id = r.drawerId /\ ~r.players[k].disconnected
                          THEN r.players[k].score + 20
                          ELSE r.players[k].score
              /\ ended <=> \A k \in 1..Len(q.players) :
                             (q.players[k].id # q.drawerId /\ ~q.players[k].disconnected)
                               => q.players[k].hasGuessed

\* ---------------------------------------------------------------------- C8
\* C8: a guess from the drawer (the connection drawerId), from a player whose
\* hasGuessed is set, or while no round is active changes nothing and emits
\* nothing.
C8_GuessIgnored ==
  \A s \in OpenSockets, text \in Texts :
    (/\ InRoom(s)
     /\ DistinctIds(gameRooms[RoomOf(s)])
     /\ FindIndexById(gameRooms[RoomOf(s)].players, s) # -1
     /\ \/ gameRooms[RoomOf(s)].drawerId = s
        \/ gameRooms[RoomOf(s)].players[
             FindIndexById(gameRooms[RoomOf(s)].players, s) + 1].hasGuessed
        \/ ~gameRooms[RoomOf(s)].isRoundActive)
    => LET res == SendMessageResult(M, s, text)
       IN  res.m.rooms = gameRooms /\ res.m.tm = timers /\ res.m.out = <<>>

\* ---------------------------------------------------------------------- C9
\* what one step may do to the scores and the hasGuessed flags of a room (r before,
\* q after): a score grows only in an active round, by a guess that sets the
\* guesser's hasGuessed from false to true, and with it at most one other record
\* (the drawer's) gains, exactly DrawerPoints; hasGuessed stays set as long as the
\* round stays active
AwardedOnce(r, q) ==
  LET gained == {k \in 1..Len(r.players) : q.players[k].score > r.players[k].score}
  IN  /\ Len(q.players) >= Len(r.players)
      /\ (r.isRoundActive /\ q.isRoundActive) =>
           \A k \in 1..Len(r.players) :
             /\ q.players[k].name = r.players[k].name
             /\ r.players[k].hasGuessed => q.players[k].hasGuessed
      /\ gained # {} =>
           /\ r.isRoundActive
           /\ Cardinality(gained) <= 2
           /\ \E g \in gained :
                /\ ~r.players[g].hasGuessed
                /\ q.players[g].hasGuessed
                /\ \A k \in gained \ {g} :
                     q.players[k].score = r.players[k].score + DrawerPoints

\* C9: within one round (a stretch of steps over which isRoundActive stays true)
\* a player is awarded guesser points at most once, and the drawer's 20 points
\* come only with such an award, whatever guesses, disconnects and rejoins are
\* interleaved.
C9_OncePerRound ==
  [][\A roomId \in (DOMAIN gameRooms) \cap (DOMAIN gameRooms') :
       AwardedOnce(gameRooms[roomId], gameRooms'[roomId])]_vars

\* a player who guessed the word, left and came back on a new connection while
\* the round went on: hasGuessed is still set and another correct guess is dropped
C9_Witness ==
  /\ lastOp.op = "joinRoom"
  /\ lastOp.ok
  /\ InRoom(lastOp.sock)
  /\ LET r == gameRooms[RoomOf(lastOp.sock)]
         me == FindIndexById(r.players, lastOp.sock) + 1
     IN  /\ r.isRoundActive
         /\ DistinctIds(r)
         /\ r.messages[Len(r.messages)] = "rejoined"
         /\ me > 0
         /\ r.players[me].hasGuessed
         /\ ~r.players[me].isDrawing
         /\ r.players[me].score >= MinGuesserPoints
         /\ \E k \in 1..Len(r.players) :
              ~r.players[k].disconnected /\ ~r.players[k].isDrawing /\ ~r.players[k].hasGuessed
         /\ \A text \in Texts :
              SendMessageResult(M, lastOp.sock, text).m = M

\* --------------------------------------------------------------------- C10
\* the records a joinRoom under this name would reclaim
Reclaims(roomId, name) ==
  /\ FindIndexByName(gameRooms[roomId].players, name) # -1
  /\ gameRooms[roomId].players[FindIndexByName(gameRooms[roomId].players, name) + 1].disconnected

\* C10 as stated, for a player who was credited nothing while away: a joinRoom
\* from a new connection under the name (in any case) of a disconnected player of
\* the room keeps the roster's size, clears disconnected on that record and leaves
\* it with the score it had when the player disconnected.
C10_ScoreAtDisconnect ==
  \A s \in OpenSockets, name \in JoinerNames \cup TrioNames, roomId \in DOMAIN gameRooms :
    (/\ RoomOf(s) = NoRoom
     /\ Reclaims(roomId, name)
     /\ gameRooms[roomId].players[FindIndexByName(gameRooms[roomId].players, name) + 1].score
          <= scoreAtLeave[<<roomId, ToLowerCase(name)>>]) =>
      LET r == gameRooms[roomId]
          existing == FindIndexByName(r.players, name) + 1
          q == JoinRoomResult(M, s, name, roomId).m.rooms[roomId]
      IN  /\ Len(q.players) = Len(r.players)
          /\ ~q.players[existing].disconnected
          /\ q.players[existing].score = scoreAtLeave[<<roomId, ToLowerCase(name)>>]

\* C10, amended: such a joinRoom keeps the roster's size and every other record,
\* hands the record to the joining connection with disconnected cleared, and
\* leaves it with the score it had just before the rejoin.
C10_RejoinKeepsRecord ==
  \A s \in OpenSockets, name \in JoinerNames \cup TrioNames, roomId \in DOMAIN gameRooms :
    Reclaims(roomId, name) =>
      LET r == gameRooms[roomId]
          existing == FindIndexByName(r.players, name) + 1
          res == JoinRoomResult(M, s, name, roomId)
          q == res.m.rooms[roomId]
      IN  /\ res.ok
          /\ Len(q.players) = Len(r.players)
          /\ q.players[existing].id = s
          /\ ~q.players[existing].disconnected
          /\ q.players[existing].name = r.players[existing].name
          /\ \A k \in 1..Len(r.players) : q.players[k].score = r.players[k].score

\* a player who had scored has just come back under the same name in another case
C10_Witness ==
  /\ lastOp.op = "joinRoom"
  /\ lastOp.ok
  /\ InRoom(lastOp.sock)
  /\ LET r == gameRooms[RoomOf(lastOp.sock)]
         me == FindIndexById(r.players, lastOp.sock) + 1
     IN  /\ r.messages[Len(r.messages)] = "rejoined"
         /\ DistinctIds(r)
         /\ me > 0
         /\ ~r.players[me].disconnected
         /\ r.players[me].score > 0
         /\ <<RoomOf(lastOp.sock), ToLowerCase(r.players[me].name)>> \in DOMAIN scoreAtLeave
         /\ r.players[me].score = scoreAtLeave[<<RoomOf(lastOp.sock), ToLowerCase(r.players[me].name)>>]

\* --------------------------------------------------------------------- C11
\* a connected player of the room holds the name, whatever the case of its letters
NameHeld(roomId, name) ==
  \E k \in 1..Len(gameRooms[roomId].players) :
    /\ ToLowerCase(gameRooms[roomId].players[k].name) = ToLowerCase(name)
    /\ ~gameRooms[roomId].players[k].disconnected

\* C11: a joinRoom that names a room that does not exist, or a name held
\* (case-insensitively) by a connected player of the room, sends one error to the
\* requesting connection and changes no room, no timer and no player record; the
\* connection is not put in the room.
C11_JoinRefused ==
  \A s \in OpenSockets, name \in JoinerNames \cup TrioNames, roomId \in RoomIds :
    (roomId \notin DOMAIN gameRooms \/ NameHeld(roomId, name)) =>
      LET res == JoinRoomResult(M, s, name, roomId)
      IN  /\ ~res.ok
          /\ res.m.rooms = gameRooms
          /\ res.m.tm = timers
          /\ Len(res.m.out) = 1
          /\ res.m.out[1].to = s
          /\ res.m.out[1].ev =
               IF roomId \notin DOMAIN gameRooms THEN "errorRoomNotFound"
               ELSE "errorNameTaken"

\* a joinRoom under "aL" has just been refused because "Al" is connected, and the
\* requesting connection is still in no room
C11_Witness ==
  /\ lastOp.op = "joinRoom"
  /\ ~lastOp.ok
  /\ RoomOf(lastOp.sock) = NoRoom
  /\ Len(out) = 1
  /\ out[1].ev = "errorNameTaken"
  /\ out[1].to = lastOp.sock
  /\ \E k \in 1..Len(gameRooms[out[1].room].players) :
       /\ gameRooms[out[1].room].players[k].name = <<"A", "l">>
       /\ ~gameRooms[out[1].room].players[k].disconnected

\* --------------------------------------------------------------------- C12
\* C12, for a game that has been started and is not over: when the connection
\* drawerId disconnects while the round is active, however many other players are
\* connected, the round is inactive afterwards, the round interval is cleared, a
\* roundEnd notice carrying the word is emitted with the time-up message, and no
\* score changes.
C12_DrawerLeaves ==
  \A s \in OpenSockets :
    (/\ InRoom(s)
     /\ gameRooms[RoomOf(s)].isRoundActive
     /\ gameRooms[RoomOf(s)].drawerId = s
     /\ gameRooms[RoomOf(s)].currentRound >= 1
     /\ ~gameRooms[RoomOf(s)].isGameOver
     /\ DistinctIds(gameRooms[RoomOf(s)])
     /\ FindIndexById(gameRooms[RoomOf(s)].players, s) # -1)
    => LET r == gameRooms[RoomOf(s)]
           res == DisconnectResult(M, s)
           q == res.rooms[RoomOf(s)]
       IN  /\ ~q.isRoundActive
           /\ q.roundInterval = NoSocket
           /\ \E k \in 1..Len(res.out) :
                res.out[k].ev = "roundEnd" /\ res.out[k].word = r.currentWord
           /\ \E k \in 1..Len(q.messages) : q.messages[k] = "timeUp"
           /\ \A k \in 1..Len(r.players) : q.players[k].score = r.players[k].score

\* --------------------------------------------------------------------- C13
\* the connected players whose isDrawing is set
ConnectedDrawers(r) ==
  {k \in 1..Len(r.players) : ~r.players[k].disconnected /\ r.players[k].isDrawing}

\* C13, for a game that has been started and is not over and a roster with one
\* record per connection: while a round is active or a word is being chosen,
\* exactly one connected player has isDrawing set.
C13_OneDrawer ==
  \A roomId \in DOMAIN gameRooms :
    LET r == gameRooms[roomId]
    IN  (/\ r.isRoundActive \/ ChoosingWord(r)
         /\ r.currentRound >= 1
         /\ ~r.isGameOver
         /\ DistinctIds(r))
        => Cardinality(ConnectedDrawers(r)) = 1

\* --------------------------------------------------------------------- C14
\* the records of the roster whose id is the room's ownerId
OwnerRecords(r) ==
  {k \in 1..Len(r.players) : r.players[k].id = r.ownerId}

\* C14, for a started game that is not over and a roster with one record per
\* connection: in a room with at least one connected player, ownerId is the id
\* of exactly one record of the roster.
C14_OwnerInRoster ==
  \A roomId \in DOMAIN gameRooms :
    LET r == gameRooms[roomId]
    IN  (/\ Len(ActivePlayers(r.players)) >= 1
         /\ DistinctIds(r)
         /\ r.currentRound >= 1
         /\ ~r.isGameOver)
        => Cardinality(OwnerRecords(r)) = 1

\* --------------------------------------------------------------------- C15
\* the owner s of a room is leaving it and another player stays connected
OwnerLeaves(s) ==
  /\ InRoom(s)
  /\ LET r == gameRooms[RoomOf(s)]
         playerIndex == FindIndexById(r.players, s)
     IN  /\ r.ownerId = s
         /\ playerIndex # -1
         /\ \E k \in 1..Len(r.players) :
              k # playerIndex + 1 /\ ~r.players[k].disconnected

C16_RoundWithinTarget ==
  \A roomId \in DOMAIN gameRooms :
    LET r == gameRooms[roomId]
    IN  (r.currentRound >= 1 /\ r.totalRounds >= 2 /\ DistinctIds(r))
        => r.currentRound <= r.totalRounds

\* --------------------------------------------------------------------- C17
\* a step that leaves the round progression of room roomId as it was
Frozen(roomId) ==
  LET r == gameRooms[roomId]
      q == gameRooms'[roomId]
  IN  /\ ~q.isRoundActive
      /\ \A i \in 1..Len(out') : out'[i].ev # "promptWordChoice"
      /\ q.wordChoiceTimeout = NoSocket
      /\ q.drawerId = r.drawerId
      /\ q.currentRound = r.currentRound

\* C17, for a started game of at least two rounds, a roster with one record per
\* connection and at least two connected players: once the game is over, every step other than a
\* playAgain or a startGame leaves the round inactive, prompts nobody and keeps
\* the drawer and the round counter.
C17_FrozenWhenOver ==
  [][\A roomId \in DOMAIN gameRooms \cap DOMAIN gameRooms' :
       LET r == gameRooms[roomId]
       IN  (/\ r.isGameOver /\ ~r.isRoundActive
            /\ r.currentRound >= 1 /\ r.totalRounds >= 2
            /\ DistinctIds(r)
            /\ Len(ActivePlayers(r.players)) >= 2
            /\ lastOp'.op \notin {"playAgain", "startGame"})
           => Frozen(roomId)]_vars

\* --------------------------------------------------------------------- C18
\* C18, for a roster with one record per connection: a playAgain sent by a
\* connection that is not the owner, or by the owner while a started game is
\* not over, changes no room, sets no timer and sends nothing.
C18_PlayAgainOnlyWhenOver ==
  \A s \in OpenSockets :
    InRoom(s) =>
      LET r == gameRooms[RoomOf(s)]
          res == PlayAgainResult(M, s)
      IN  (/\ DistinctIds(r)
           /\ \/ s # r.ownerId
              \/ r.currentRound >= 1 /\ ~r.isGameOver)
          => /\ ~res.ok
             /\ res.m.rooms = gameRooms
             /\ res.m.tm = timers
             /\ res.m.out = <<>>

\* --------------------------------------------------------------------- C19
\* connection s is not the connection of the drawer of a room it is in
NotTheDrawer(s) == ~InRoom(s) \/ gameRooms[RoomOf(s)].drawerId # s

\* C19: in every phase, a startPath, drawPath, undo or clearCanvas sent by a
\* connection other than the drawer's leaves every room, the drawing log
\* included, as it was and emits nothing.
C19_OnlyDrawerDraws ==
  \A s \in OpenSockets :
    NotTheDrawer(s) =>
      /\ \A path \in Paths :
           /\ StartPathResult(M, s, path) = [m |-> M, ok |-> FALSE]
           /\ DrawPathResult(M, s, path) = [m |-> M, ok |-> FALSE]
      /\ UndoResult(M, s) = [m |-> M, ok |-> FALSE]
      /\ ClearCanvasResult(M, s) = [m |-> M, ok |-> FALSE]

\* the drawer has drawn, the log is not empty, and a connected player of the
\* room who is not the drawer could send a drawing request
C19_Witness ==
  /\ lastOp.op \in {"startPath", "drawPath"}
  /\ \E s \in OpenSockets :
       /\ InRoom(s)
       /\ NotTheDrawer(s)
       /\ gameRooms[RoomOf(s)].drawingHistory # <<>>
       /\ FindIndexById(gameRooms[RoomOf(s)].players, s) # -1

\* --------------------------------------------------------------------- C20
\* position in the roster of the first connected player after position i, cyclically
NextConnected(players, i) ==
  LET n == Len(players)
      At(j) == ((i - 1 + j) % n) + 1
      j0 == CHOOSE j \in 1..n :
              /\ ~players[At(j)].disconnected
              /\ \A h \in 1..(j - 1) : players[At(h)].disconnected
  IN  At(j0)

\* the word-choice window of room roomId runs out on a drawer who has not chosen
\* while at least two players are connected
WindowRunsOut(roomId) ==
  /\ roomId \in DOMAIN gameRooms
  /\ LET r == gameRooms[roomId]
     IN  /\ ChoosingWord(r)
         /\ r.drawerId = r.wordChoiceTimeout
         /\ Len(ActivePlayers(r.players)) >= MinPlayers

Scores(r) == [k \in 1..Len(r.players) |-> r.players[k].score]

\* the turn passes: the next connected player in roster order is the drawer, is
\* prompted, and has a word-choice window of their own
TurnPasses(r, res, roomId) ==
  LET q == res.rooms[roomId]
      next == r.players[NextConnected(r.players, FindIndexById(r.players, r.drawerId) + 1)]
  IN  /\ q.drawerId = next.id
      /\ ChoosingWord(q)
      /\ q.wordChoiceTimeout = next.id
      /\ \E i \in 1..Len(res.out) :
           res.out[i].ev = "promptWordChoice" /\ res.out[i].to = next.id

Wraps(r) ==
  LET i == FindIndexById(r.players, r.drawerId) + 1
  IN  NextConnected(r.players, i) <= i

\* the game ends: nobody is prompted, no window is open, the drawer stays
GameEnds(r, res, roomId) ==
  LET q == res.rooms[roomId]
  IN  /\ q.isGameOver /\ ~q.isRoundActive
      /\ q.wordChoiceTimeout = NoSocket
      /\ q.drawerId = r.drawerId
      /\ \A i \in 1..Len(res.out) : res.out[i].ev # "promptWordChoice"

AllGone(r) == \A k \in 1..Len(r.players) : r.players[k].disconnected

\* C21: a step removes a room only if all its players are disconnected and the
\* teardown timeout that fired is the one set when the last of them left, so
\* that no younger teardown timeout of that room is still pending.
C21_RemovedAfterGrace ==
  [][\A roomId \in (DOMAIN gameRooms) \ (DOMAIN gameRooms') :
       /\ AllGone(gameRooms[roomId])
       /\ \A j \in 1..Len(timers'.teardowns) : RoomOf(timers'.teardowns[j]) # roomId]_vars

\* --------------------------------------------------------------------- C22
\* the drawer after j further turn starts of an unchanged roster, as startRound
\* computes it
RECURSIVE DrawerAfter(_, _, _)
DrawerAfter(players, drawerId, j) ==
  IF j = 0 THEN drawerId
  ELSE LET activePlayers == ActivePlayers(players)
           d == DrawerAfter(players, drawerId, j - 1)
       IN  activePlayers[NextDrawerIndex(activePlayers, d) + 1].id

\* room r has at least two connected players and its drawer is one of them
DrawerAmongConnected(r) ==
  /\ Len(ActivePlayers(r.players)) >= MinPlayers
  /\ FindIndexById(ActivePlayers(r.players), r.drawerId) # -1

\* C22: with K >= 2 connected players, the drawer among them, a turn start makes
\* the next connected player in roster order the drawer, and K consecutive turn
\* starts of the unchanged roster give K distinct drawers.
C22_RotationIsACycle ==
  \A roomId \in DOMAIN gameRooms :
    LET r == gameRooms[roomId]
        K == Len(ActivePlayers(r.players))
        q == startRound(M, roomId).rooms[roomId]
    IN  DrawerAmongConnected(r) =>
          /\ ChoosingWord(q) =>
               q.drawerId =
                 r.players[NextConnected(r.players,
                                         FindIndexById(r.players, r.drawerId) + 1)].id
          /\ Cardinality({DrawerAfter(r.players, r.drawerId, j) : j \in 1..K}) = K

\* --------------------------------------------------------------------- C23
\* hinting has started in room r: the hint interval runs or a letter is revealed
Hinting(r) == r.hintInterval \/ r.revealedIndices # <<>>

\* number of non-space letters of the word of r whose index is not revealed
Hidden(r) == Len(Unrevealed(r.currentWord, r.revealedIndices))

\* C23, for a started game that is not over and a roster with one record per
\* connection: while a round is drawn and hinting has started at least two
\* letters are hidden, and a reveal changes revealedIndices only when more
\* than two are hidden.
C23_TwoStayHidden ==
  \A roomId \in DOMAIN gameRooms :
    LET r == gameRooms[roomId]
    IN  (r.currentRound >= 1 /\ ~r.isGameOver /\ DistinctIds(r)) =>
          /\ (Drawing(r) /\ Hinting(r)) => Hidden(r) >= 2
          /\ \A rnd \in Rnd :
               revealHint(M, roomId, rnd).rooms[roomId].revealedIndices # r.revealedIndices
                 => Hidden(r) > 2

\* --------------------------------------------------------------------- C24
\* every entry of revealedIndices is the index of a non-space character of the
\* word, and no index occurs twice
RevealedAreLetters(r) ==
  /\ \A k \in 1..Len(r.revealedIndices) :
       /\ r.revealedIndices[k] \in 0..(Len(r.currentWord) - 1)
       /\ r.currentWord[r.revealedIndices[k] + 1] # " "
  /\ \A k, h \in 1..Len(r.revealedIndices) :
       r.revealedIndices[k] = r.revealedIndices[h] => k = h

\* C24, for a started game that is not over and a roster with one record per
\* connection: revealedIndices holds distinct indices of non-space characters
\* of the current word, and is empty while a word is being chosen.
C24_RevealedIndices ==
  \A roomId \in DOMAIN gameRooms :
    LET r == gameRooms[roomId]
    IN  (r.currentRound >= 1 /\ ~r.isGameOver /\ DistinctIds(r)) =>
          /\ RevealedAreLetters(r)
          /\ ChoosingWord(r) => r.revealedIndices = <<>>

\* --------------------------------------------------------------------- C25
\* the mask has one symbol per character of the word, single spaces between
\* them, and symbol i is picked by Shown(i)
MaskIs(word, masked, Shown(_)) ==
  /\ Len(masked) = IF Len(word) = 0 THEN 0 ELSE 2 * Len(word) - 1
  /\ \A i \in 1..Len(word) :
       masked[2 * i - 1] = IF Shown(i) THEN word[i] ELSE "_"
  /\ \A i \in 1..(Len(word) - 1) : masked[2 * i] = " "

RECURSIVE Lev(_, _)
Lev(a, b) ==
  IF Len(a) = 0 THEN Len(b)
  ELSE IF Len(b) = 0 THEN Len(a)
  ELSE LET a1 == SubSeq(a, 1, Len(a) - 1)
           b1 == SubSeq(b, 1, Len(b) - 1)
       IN  Min2(Min2(Lev(a1, b) + 1, Lev(a, b1) + 1),
                Lev(a1, b1) + (IF a[Len(a)] = b[Len(b)] THEN 0 ELSE 1))

C27_AwardMonotone ==
  (lastOp.op = "guesserPoints" /\ out # <<>>) =>
    LET s == lastOp.roundTimer
    IN  /\ \E n \in 0..RoundSeconds :
             /\ 10 * n <= 6 * s /\ 6 * s < 10 * (n + 1)
             /\ out[1] = Max2(10, n + 10)
        /\ out[1] >= 10
        /\ s = 0 => out[1] = 10
        /\ \A u \in 0..s : guesserPoints(u) <= out[1]

\* the award has been computed at the half of the countdown
C27_Witness ==
  /\ lastOp.op = "guesserPoints"
  /\ lastOp.roundTimer = HintAt
  /\ out = <<37>>

\* --------------------------------------------------------------------- C28
\* event e reaches open connection c: io.to(room) reaches every connection that
\* joined the room, socket.to(room) every one but the sender, the others one
Reaches(e, c) ==
  \/ e.to = c
  \/ e.to = 0 /\ RoomOf(c) = e.room
  \/ e.to < 0 /\ e.to # -c /\ RoomOf(c) = e.room

\* C28, for a started game that is not over and a roster with one record per
\* connection: a mismatched guess is emitted as one chat line that reaches
\* every other connection of the room and does not reach its sender.
C28_NotEchoedToSender ==
  \A s \in OpenSockets, text \in Texts :
    LET res == SendMessageResult(M, s, text)
        chat == {i \in 1..Len(res.m.out) : res.m.out[i].ev = "playerGuessed"}
    IN  (/\ InRoom(s)
         /\ res.ok /\ ~res.correct
         /\ gameRooms[RoomOf(s)].currentRound >= 1
         /\ ~gameRooms[RoomOf(s)].isGameOver
         /\ DistinctIds(gameRooms[RoomOf(s)]))
        => /\ Cardinality(chat) = 1
           /\ \A i \in chat :
                /\ \A c \in OpenSockets \ {s} :
                     RoomOf(c) = RoomOf(s) => Reaches(res.m.out[i], c)
                /\ ~Reaches(res.m.out[i], s)

\* --------------------------------------------------------------------- C29
\* C29, for a started game and a roster with one record per connection: when
\* the classifier answers a call while no round is active in the caller's room
\* (the round the call was made in has ended), no suggestion is emitted.
C29_LateResultDiscarded ==
  [][\A k \in 1..Len(timers.analyses) :
       LET s == timers.analyses[k]
       IN  (/\ lastOp'.op = "analysisResult" /\ lastOp'.sock = s
            /\ timers'.analyses = RemoveAt(timers.analyses, k)
            /\ InRoom(s)
            /\ ~gameRooms[RoomOf(s)].isRoundActive
            /\ gameRooms[RoomOf(s)].currentRound >= 1
            /\ DistinctIds(gameRooms[RoomOf(s)]))
           => \A i \in 1..Len(out') : out'[i].ev # "aiSuggestion"]_vars

\* --------------------------------------------------------------------- C30
\* the round-ended notices for room roomId among the events of the step
RoundEndNotices(roomId) ==
  {i \in 1..Len(out') : out'[i].ev = "roundEnd" /\ out'[i].room = roomId}

\* C30, for a started game that is not over, a roster with one record per
\* connection and steps other than playAgain: a step that ends the active round
\* emits exactly one round-ended notice, and a step taken while no round is
\* active emits none.
C30_OneRoundEndNotice ==
  [][\A roomId \in DOMAIN gameRooms \cap DOMAIN gameRooms' :
       LET r == gameRooms[roomId]
           q == gameRooms'[roomId]
       IN  (/\ r.currentRound >= 1 /\ ~r.isGameOver
            /\ DistinctIds(r)
            /\ lastOp'.op # "playAgain")
           => /\ (r.isRoundActive /\ ~q.isRoundActive)
                   => Cardinality(RoundEndNotices(roomId)) = 1
              /\ ~r.isRoundActive => RoundEndNotices(roomId) = {}]_vars

\* --------------------------------------------------------------------- C31
\* C31, for a started game that is not over, a roster with one record per
\* connection and steps other than playAgain: a round end leaves one next-turn
\* start pending, the start that follows the cool-down is never taken while a
\* round is active, and a round stops being active only in a countdown tick, a
\* guess or a disconnect.
C31_OneTurnStartPerRoundEnd ==
  [][\A roomId \in DOMAIN gameRooms \cap DOMAIN gameRooms' :
       LET r == gameRooms[roomId]
           q == gameRooms'[roomId]
       IN  (/\ r.currentRound >= 1 /\ ~r.isGameOver
            /\ DistinctIds(r)
            /\ lastOp'.op # "playAgain")
           => /\ q.cooldowns <= 1
              /\ lastOp'.op = "cooldown" => ~r.isRoundActive
              /\ (r.isRoundActive /\ ~q.isRoundActive)
                   => lastOp'.op \in {"gameTick", "leakedTick", "sendMessage", "disconnect"}]_vars

\* --------------------------------------------------------------------- C32
\* number of countdown intervals of room roomId that can still fire
PendingCountdowns(roomId) ==
  (IF gameRooms[roomId].roundInterval # NoSocket THEN 1 ELSE 0)
  + Cardinality({k \in 1..Len(timers.leaked) : RoomOf(timers.leaked[k]) = roomId})

\* C32, for a roster with one record per connection: while no round is active
\* no countdown and no hint interval of the room is pending, and while a round
\* is active at most one countdown is.
C32_TimersFollowRound ==
  \A roomId \in DOMAIN gameRooms :
    LET r == gameRooms[roomId]
    IN  DistinctIds(r) =>
          /\ ~r.isRoundActive => PendingCountdowns(roomId) = 0 /\ ~r.hintInterval
          /\ r.isRoundActive => PendingCountdowns(roomId) <= 1

\* --------------------------------------------------------------------- C33
\* the word-choice timeout of room roomId, fired now, would only die
StaleTimeoutIsInert(roomId) ==
  LET res == WordChoiceTimeoutResult(M, roomId)
  IN  /\ res.out = <<>>
      /\ res.tm = timers
      /\ res.rooms = [gameRooms EXCEPT ![roomId].wordChoiceTimeout = NoSocket]

\* C33, for a roster with one record per connection: no word-choice timeout is
\* pending once the drawer has chosen a word, and one that is still pending
\* after the game has been reset by playAgain changes nothing when it fires.
C33_StaleTimeoutIgnored ==
  \A roomId \in DOMAIN gameRooms :
    LET r == gameRooms[roomId]
    IN  DistinctIds(r) =>
          /\ r.isRoundActive => r.wordChoiceTimeout = NoSocket
          /\ (/\ lastOp.op = "playAgain" /\ lastOp.ok
              /\ RoomOf(lastOp.sock) = roomId
              /\ r.wordChoiceTimeout # NoSocket)
             => StaleTimeoutIsInert(roomId)

\* --------------------------------------------------------------------- C34
\* C34, for a roster with one record per connection: while a game is in
\* progress, no step other than startGame and playAgain decreases currentRound.
C34_RoundNeverDecreases ==
  [][\A roomId \in DOMAIN gameRooms \cap DOMAIN gameRooms' :
       LET r == gameRooms[roomId]
           q == gameRooms'[roomId]
       IN  (/\ r.currentRound >= 1 /\ ~r.isGameOver
            /\ DistinctIds(r)
            /\ lastOp'.op \notin {"startGame", "playAgain"})
           => q.currentRound >= r.currentRound]_vars

\* --------------------------------------------------------------------- C35
\* position in the roster of r of the drawer's record, 0 when there is none
DrawerPosition(r) == FindIndexById(r.players, r.drawerId) + 1

\* the step has prompted a drawer of room roomId to choose a word
TurnStarts(roomId) ==
  \E k \in 1..Len(out') : out'[k].ev = "promptWordChoice" /\ out'[k].room = roomId

\* C35, for a roster with one record per connection: when a turn starts in a
\* game in progress while the drawer's record is disconnected, the new drawer
\* is the first connected player after that record in roster order, cyclically.
C35_DrawerFollowsDeparted ==
  [][\A roomId \in DOMAIN gameRooms \cap DOMAIN gameRooms' :
       LET r == gameRooms[roomId]
           q == gameRooms'[roomId]
           i == DrawerPosition(r)
       IN  (/\ DistinctIds(r)
            /\ r.currentRound >= 1 /\ ~r.isGameOver
            /\ lastOp'.op \notin {"startGame", "playAgain"}
            /\ i >= 1 /\ r.players[i].disconnected
            /\ TurnStarts(roomId))
           => q.drawerId = r.players[NextConnected(r.players, i)].id]_vars

\* --------------------------------------------------------------------- C36
\* the countdown of room roomId is one tick from zero
FinalTickPending(roomId) ==
  LET r == gameRooms[roomId]
  IN  /\ r.isRoundActive
      /\ r.roundTimer = 1
      /\ r.roundInterval # NoSocket
      /\ RoomOf(r.roundInterval) = roomId

\* number of roundEnd notices of room roomId in the emissions of m
RoundEndsIn(m, roomId) ==
  Cardinality({k \in 1..Len(m.out) : m.out[k].ev = "roundEnd" /\ m.out[k].room = roomId})

\* the round of room roomId, active in gameRooms, has ended once in m
EndedOnce(m, roomId) ==
  /\ ~m.rooms[roomId].isRoundActive
  /\ m.rooms[roomId].roundInterval = NoSocket
  /\ m.rooms[roomId].cooldowns = gameRooms[roomId].cooldowns + 1
  /\ RoundEndsIn(m, roomId) = 1

\* the guess is handled first; the tick fires afterwards if its interval survived
GuessThenTick(s, text, roomId, rnd) ==
  LET g == SendMessageResult(M, s, text).m
  IN  IF g.rooms[roomId].roundInterval # NoSocket THEN gameTick(g, roomId, rnd) ELSE g

\* the tick fires first; the guess is handled afterwards
TickThenGuess(s, text, roomId, rnd) ==
  SendMessageResult(gameTick(M, roomId, rnd), s, text)

\* C36, for a roster with one record per connection: when the final tick of
\* the countdown and a correct guess are both pending, either order ends the
\* round exactly once; the guess processed first is scored with the points of
\* the last second, the guess processed after the tick is dropped unscored.
C36_GuessRacesFinalTick ==
  \A roomId \in DOMAIN gameRooms : \A s \in OpenSockets : \A text \in Texts : \A rnd \in Rnd :
    LET r == gameRooms[roomId]
        player == FindIndexById(r.players, s) + 1
    IN  (/\ DistinctIds(r)
         /\ FinalTickPending(roomId)
         /\ RoomOf(s) = roomId
         /\ SendMessageResult(M, s, text).correct)
        => LET a == GuessThenTick(s, text, roomId, rnd)
               b == TickThenGuess(s, text, roomId, rnd)
           IN  /\ EndedOnce(a, roomId)
               /\ a.rooms[roomId].players[player].score
                    = r.players[player].score + guesserPoints(1)
               /\ a.rooms[roomId].players[player].hasGuessed
               /\ EndedOnce(b.m, roomId)
               /\ ~b.ok
               /\ b.m.rooms[roomId].players[player].score = r.players[player].score
               /\ ~b.m.rooms[roomId].players[player].hasGuessed

\* a correct guess has been scored with the final tick still pending
C36_Witness ==
  /\ lastOp.op = "sendMessage" /\ lastOp.ok
  /\ RoomOf(lastOp.sock) \in DOMAIN gameRooms
  /\ FinalTickPending(RoomOf(lastOp.sock))
  /\ LET r == gameRooms[RoomOf(lastOp.sock)]
         player == FindIndexById(r.players, lastOp.sock) + 1
     IN  /\ DistinctIds(r)
         /\ player >= 1
         /\ r.players[player].hasGuessed
         /\ r.players[player].score = guesserPoints(1)
         /\ \E s \in OpenSockets, text \in Texts : SendMessageResult(M, s, text).correct

\* --------------------------------------------------------------------- C37
\* every room other than roomId is in m what it is in gameRooms
OthersUnchanged(m, roomId) ==
  \A other \in (DOMAIN gameRooms) \ {roomId} :
    HasRoom(m, other) /\ m.rooms[other] = gameRooms[other]

\* C37: a request changes no room but the one its connection is in (the room
\* named in the request for joinRoom), and a timer set for a room changes no
\* other room: the countdown and the hint interval the room's record holds,
\* its word-choice timeout and its cool-down.
C37_RoomsAreIsolated ==
  /\ \A s \in OpenSockets :
       /\ \A name \in JoinerNames, roomId \in DOMAIN gameRooms :
            OthersUnchanged(JoinRoomResult(M, s, name, roomId).m, roomId)
       /\ \A totalRounds \in 1..MaxTotalRounds :
            OthersUnchanged(StartGameResult(M, s, totalRounds).m, RoomOf(s))
       /\ OthersUnchanged(PlayAgainResult(M, s).m, RoomOf(s))
       /\ \A word \in Words : OthersUnchanged(WordChosenResult(M, s, word).m, RoomOf(s))
       /\ \A text \in Texts : OthersUnchanged(SendMessageResult(M, s, text).m, RoomOf(s))
       /\ OthersUnchanged(DisconnectResult(M, s), RoomOf(s))
  /\ \A roomId \in DOMAIN gameRooms :
       LET r == gameRooms[roomId]
       IN  /\ r.wordChoiceTimeout # NoSocket
             => OthersUnchanged(WordChoiceTimeoutResult(M, roomId), roomId)
           /\ r.cooldowns > 0 => OthersUnchanged(startRound(M, roomId), roomId)
           /\ r.hintInterval
             => \A rnd \in Rnd : OthersUnchanged(revealHint(M, roomId, rnd), roomId)
           /\ r.roundInterval # NoSocket
             => \A rnd \in Rnd :
                  OthersUnchanged(Countdown(M, r.roundInterval, roomId, rnd), roomId)

\* --------------------------------------------------------------------- C38
\* the room of the started game
LiveRoom == gameRooms[1]

\* the connections of its three players
LivePlayers == {1, 2, 3}

\* C38: in a started game where at least two players stay connected and the
\* owner sends no startGame or playAgain, with every due timer firing and
\* whatever else the connections send (a createRoom included): a drawer's
\* ChoosingWord phase ends, a Drawing phase ends, and the game reaches game-over.
C38_GameRunsToItsEnd ==
  /\ \A d \in LivePlayers :
       (ChoosingWord(LiveRoom) /\ LiveRoom.drawerId = d)
         ~> ~(ChoosingWord(LiveRoom) /\ LiveRoom.drawerId = d)
  /\ Drawing(LiveRoom) ~> ~Drawing(LiveRoom)
  /\ (LiveRoom.currentRound >= 1) ~> LiveRoom.isGameOver

\* --------------------------------------------------------------------- C39
\* the abstract sequence of strokes and its four operations
AbstractStart(log, path) == log \o <<path>>

AbstractContinue(log, path) ==
  IF log = <<>> THEN log
  ELSE [i \in 1..Len(log) |-> IF i = Len(log) THEN path ELSE log[i]]

AbstractUndo(log) ==
  IF log = <<>> THEN log ELSE [i \in 1..(Len(log) - 1) |-> log[i]]

AbstractClear(log) == <<>>

\* the log of connection s's room after the handler run that gave res
LogAfter(res, s) == res.m.rooms[RoomOf(s)].drawingHistory

\* C39: a drawing request is taken exactly when it comes from the drawer (and,
\* for drawPath, the log is not empty), a request that is not taken leaves the
\* state as it is, and a request that is taken turns the log into the abstract
\* sequence's result: append for startPath, replace-last for drawPath,
\* remove-last for undo (nothing if empty), empty for clearCanvas; drawPath
\* keeps the log's length and every stroke but the last.
C39_LogFollowsAbstractSequence ==
  \A s \in OpenSockets :
    InRoom(s) =>
      LET r == gameRooms[RoomOf(s)]
          log == r.drawingHistory
          undone == UndoResult(M, s)
          cleared == ClearCanvasResult(M, s)
      IN  /\ \A path \in Paths :
               LET started == StartPathResult(M, s, path)
                   continued == DrawPathResult(M, s, path)
               IN  /\ started.ok = IsDrawer(r, s)
                   /\ ~started.ok => started.m = M
                   /\ started.ok => LogAfter(started, s) = AbstractStart(log, path)
                   /\ continued.ok = (IsDrawer(r, s) /\ log # <<>>)
                   /\ ~continued.ok => continued.m = M
                   /\ continued.ok =>
                        /\ LogAfter(continued, s) = AbstractContinue(log, path)
                        /\ Len(LogAfter(continued, s)) = Len(log)
                        /\ \A i \in 1..(Len(log) - 1) : LogAfter(continued, s)[i] = log[i]
          /\ undone.ok = IsDrawer(r, s)
          /\ ~undone.ok => undone.m = M
          /\ undone.ok => LogAfter(undone, s) = AbstractUndo(log)
          /\ cleared.ok = IsDrawer(r, s)
          /\ ~cleared.ok => cleared.m = M
          /\ cleared.ok => LogAfter(cleared, s) = AbstractClear(log)

\* the drawer has replaced the last of two strokes and can undo it
C39_Witness ==
  /\ lastOp.op = "drawPath" /\ lastOp.ok
  /\ InRoom(lastOp.sock)
  /\ LET r == gameRooms[RoomOf(lastOp.sock)]
     IN  /\ IsDrawer(r, lastOp.sock)
         /\ Len(r.drawingHistory) = 2
         /\ r.drawingHistory[1] # r.drawingHistory[2]
         /\ UndoResult(M, lastOp.sock).ok

\* --------------------------------------------------------------------- C40
\* room q is as a round should find it when it starts
FreshRound(q) ==
  /\ q.roundTimer = RoundSeconds
  /\ q.revealedIndices = <<>>
  /\ \A k \in 1..Len(q.players) : ~q.players[k].isDrawing => ~q.players[k].hasGuessed

\* C40, for a roster with one record per connection and a game in progress: a
\* step that makes a round active leaves the countdown at 90, revealedIndices
\* empty and hasGuessed false for every player who is not drawing.
C40_RoundStartsFresh ==
  [][\A roomId \in DOMAIN gameRooms \cap DOMAIN gameRooms' :
       LET r == gameRooms[roomId]
           q == gameRooms'[roomId]
       IN  (/\ DistinctIds(r)
            /\ r.currentRound >= 1 /\ ~r.isGameOver
            /\ ~r.isRoundActive /\ q.isRoundActive)
           => FreshRound(q)]_vars

====
